---------------------------- MODULE Spec2Model ----------------------------
(***************************************************************************)
(* OpenGrowBox: the actuator abstraction (OGBDevices/Device.py), the       *)
(* capability registry (Device.identifyCapabilities, OGBDeviceManager) and *)
(* the predictive controller (managers/UltraInstinctManager.py).           *)
(*                                                                         *)
(* Conventions.  Percentages, bounds and control values are whole numbers  *)
(* (the entity values the integration stores for duty, voltage, min and    *)
(* max are whole percent), so float() and int() of such a value keep it.   *)
(* Raw readings arriving from the host are kept in tenths (a reading 5.5   *)
(* is 55) so that convert_to_int's truncation and the x10 scaling are      *)
(* computed, not assumed.  Python's None in a numeric slot is the value    *)
(* None below; every arithmetic use is guarded as the code guards it.      *)
(***************************************************************************)
EXTENDS Integers, Sequences, FiniteSets, TLC

VARIABLES
    dev,        \* the Device object's attributes
    tasks,      \* coroutines suspended in hass.services.async_call
    hwOnAges,   \* ages of the turn-on commands of the last Cooldown seconds
    hist,       \* observation only: what the claims need to know of the past
    fn,         \* a call of clamp_voltage / clamp_duty_cycle: arguments and result
    reg,        \* the capability registry of the dataStore and the room's devices
    ui          \* the UltraInstinctManager object's attributes

devVars == <<dev, tasks, hwOnAges, hist>>
otherThanDev == <<fn, reg, ui>>
vars == <<dev, tasks, hwOnAges, hist, fn, reg, ui>>

---------------------------------------------------------------------------
(* Bounds of the model *)

MaxTasks == 1        \* coroutines suspended in a hardware call at once

(* Program constants *)

Cooldown == 3        \* Device.turn_on: "if now - last_call < 3.0"
DefaultDuty == 50    \* Device.clamp_duty_cycle: "return 50  # Default fallback"

None == 0 - 1000

\* the value of a variable whose component a specification leaves out
Parked == [parked |-> TRUE]

Max2(a, b) == IF a >= b THEN a ELSE b
Min2(a, b) == IF a <= b THEN a ELSE b

\* Python int(): truncation toward zero of a / b  (b > 0)
TruncDiv(a, b) == IF a >= 0 THEN a \div b ELSE 0 - ((0 - a) \div b)

---------------------------------------------------------------------------
(* Raw entity values.  kind "num" carries the reading in tenths. *)

Num(t) == [kind |-> "num", v |-> t]
RawNone == [kind |-> "none", v |-> 0]
RawUnavailable == [kind |-> "unavailable", v |-> 0]

RawNumbers == {Num(55), Num(1100)}
RawValues == RawNumbers \cup {RawUnavailable}

\* checkForControlValue.convert_to_int: float(value), optional *10, int();
\* None on ValueError / TypeError.
convert_to_int(raw, multiply_by_10) ==
    IF raw.kind # "num" THEN None
    ELSE IF multiply_by_10 THEN raw.v
    ELSE TruncDiv(raw.v, 10)

---------------------------------------------------------------------------
(* Bounds enforcer *)

\* d.scale: the model units that make one percent.  The device model keeps
\* whole percents (scale 1), the specification of the two clamp functions
\* keeps tenths (scale 10) so that int() has something to cut off.

\* int(x) of Python: the fraction is dropped, towards zero
int(d, x) == d.scale * TruncDiv(x, d.scale)

clamp_voltage_off(d, value) == value

\* Device.clamp_voltage
clamp_voltage(d, value) ==
    IF d.minVoltage # None /\ d.maxVoltage # None
    THEN Max2(d.minVoltage, Min2(d.maxVoltage, IF value = None THEN 0 ELSE value))
    ELSE value

\* Device.clamp_duty_cycle
clamp_duty_cycle(d, value) ==
    IF value = None THEN DefaultDuty * d.scale
    ELSE LET min_duty == IF d.minDuty # None THEN d.minDuty ELSE 0
             max_duty == IF d.maxDuty # None THEN d.maxDuty ELSE 100 * d.scale
             clamped == Max2(min_duty, Min2(max_duty, value))
         IN  int(d, clamped)

---------------------------------------------------------------------------
(* Feedback ingestion *)

DutyTypes == {"Exhaust", "Intake", "Ventilation", "Humidifier", "Dehumidifier"}
LightTypes == {"Light", "LightFarRed", "LightUV", "LightBlue", "LightRed"}
FanTypes == {"Exhaust", "Intake", "Ventilation"}

\* Device.identifyIfRunningState: the first switch (or select option) decides
identifyIfRunningState(d) ==
    [d EXCEPT !.isRunning =
        IF d.switchValue = "on" THEN "on"
        ELSE IF d.switchValue = "off" THEN "off"
        ELSE "unknown"]

\* checkForControlValue, the loop over self.sensors (lines 643-677)
SensorPath(d) ==
    LET conv == convert_to_int(d.fbValue, d.isAcInfinDev)
    IN  IF d.fbValue.kind = "none" \/ conv = None THEN d
        ELSE IF d.deviceType = "Light"
        THEN [d EXCEPT !.voltage =
                IF d.minVoltage # None /\ d.maxVoltage # None
                   /\ (d.minVoltage > 0 \/ d.maxVoltage < 100)
                THEN clamp_voltage(d, conv) ELSE conv]
        ELSE IF d.deviceType \in DutyTypes
        THEN [d EXCEPT !.dutyCycle =
                IF d.minDuty # None /\ d.maxDuty # None
                   /\ (d.minDuty > 0 \/ d.maxDuty < 100)
                THEN Max2(d.minDuty, Min2(d.maxDuty, conv)) ELSE conv]
        ELSE d

\* checkForControlValue, the loop over self.options (lines 680-710)
OptionPath(d) ==
    IF d.deviceType = "Light"
    THEN LET conv == convert_to_int(d.fbValue, TRUE)
             d1 == [d EXCEPT !.voltageFromNumber = TRUE]
         IN  IF conv = None THEN d1
             ELSE [d1 EXCEPT !.voltage =
                     IF d.is_minmax_active /\ d.minVoltage # None /\ d.maxVoltage # None
                     THEN clamp_voltage(d, conv) ELSE conv]
    ELSE LET conv == convert_to_int(d.fbValue, d.isAcInfinDev)
         IN  IF conv = None THEN d
             ELSE [d EXCEPT !.dutyCycle =
                     IF d.is_minmax_active /\ d.minDuty # None /\ d.maxDuty # None
                     THEN Max2(d.minDuty, Min2(d.maxDuty, conv)) ELSE conv]

\* Device.checkForControlValue
checkForControlValue(d) ==
    IF d.in_active_control THEN d
    ELSE IF ~d.isDimmable THEN d
    ELSE IF d.fb = "none" THEN d
    ELSE IF d.fb = "sensor" THEN SensorPath(d)
    ELSE OptionPath(d)

\* Device.checkMinMax: st is dataStore.getDeep("DeviceMinMax.<deviceType>");
\* a Light entry holds minVoltage/maxVoltage, every other entry minDuty/maxDuty
checkMinMax(d, st) ==
    IF ~d.isDimmable THEN d
    ELSE IF ~st.present THEN [d EXCEPT !.is_minmax_active = FALSE]
    ELSE IF d.deviceType = "Light"
    THEN LET d1 == [d EXCEPT !.is_minmax_active = st.active,
                             !.minVoltage = st.min, !.maxVoltage = st.max]
         IN  IF d1.voltage # None
             THEN [d1 EXCEPT !.voltage = clamp_voltage(d1, d1.voltage)]
             ELSE d1
    ELSE LET d1 == [d EXCEPT !.is_minmax_active = st.active,
                             !.minDuty = st.min, !.maxDuty = st.max]
         IN  IF d1.dutyCycle # None
             THEN [d1 EXCEPT !.dutyCycle = Max2(d1.minDuty, Min2(d1.maxDuty, d1.dutyCycle))]
             ELSE d1

---------------------------------------------------------------------------
(* Hardware commands *)

NoCmd == [svc |-> "none", val |-> None]

\* Device._is_device_online: a select-driven (AC Infinity) device has no
\* switch entity to check
is_device_online(d) == d.isAcInfinDev \/ d.switchValue # "unavailable"

\* Device.turn_on, lines 760-802: the values a call works with
Brightness(d, brightness_pct) ==
    IF brightness_pct # None THEN Max2(0, Min2(100, brightness_pct))
    ELSE IF d.deviceType \in LightTypes /\ d.voltage # None THEN d.voltage
    ELSE IF d.isSpecialDevice /\ d.dutyCycle # None THEN d.dutyCycle
    ELSE 100

Percentage(d, percentage) ==
    IF percentage # None THEN percentage
    ELSE IF d.deviceType \in FanTypes /\ d.dutyCycle # None THEN d.dutyCycle
    ELSE 100

\* Device.turn_on, lines 804-1107: the command sent for the device's entity.
\* number.set_value carries a tenth of the percentage; val records the
\* percentage it stands for (AC Infinity: after int(), whole tenths only).
TurnOnCmd(d, brightness_pct, percentage) ==
    LET b == Brightness(d, brightness_pct)
        p == Percentage(d, percentage)
        hasNumber == d.fb = "option"
    IN  IF d.isAcInfinDev
        THEN [svc |-> "select.select_option",
              val |-> IF ~hasNumber THEN None
                      ELSE IF d.deviceType = "Light" THEN 10 * TruncDiv(b, 10)
                      ELSE 10 * TruncDiv(p, 10)]
        ELSE IF d.deviceType \in LightTypes
        THEN IF ~d.isDimmable THEN [svc |-> "switch.turn_on", val |-> None]
             ELSE IF d.voltageFromNumber
             THEN [svc |-> "switch.turn_on", val |-> IF hasNumber THEN b ELSE None]
             ELSE [svc |-> "light.turn_on", val |-> Max2(0, Min2(100, b))]
        ELSE IF d.deviceType \in {"Exhaust", "Intake"}
        THEN IF d.isSpecialDevice
             THEN IF d.isDimmable THEN [svc |-> "light.turn_on", val |-> b]
                  ELSE [svc |-> "switch.turn_on", val |-> None]
             ELSE IF d.isDimmable THEN [svc |-> "fan.set_percentage", val |-> p]
             ELSE [svc |-> "switch.turn_on", val |-> None]
        ELSE IF d.deviceType = "Ventilation"
        THEN IF d.isSpecialDevice THEN [svc |-> "light.turn_on", val |-> b]
             ELSE IF d.isDimmable THEN [svc |-> "fan.set_percentage", val |-> p]
             ELSE [svc |-> "switch.turn_on", val |-> None]
        ELSE [svc |-> "switch.turn_on", val |-> None]

\* Device.turn_on, line 751: getattr(self, '_last_turn_on_time', 0)
\* the model keeps the difference itself, d.since_turn_on = now - last_call,
\* counted in whole seconds up to Cooldown (a device that never accepted a
\* call has last_call = 0, a difference far above Cooldown)
RateLimited_never(d) == FALSE

\* Device.turn_on, line 754
RateLimited(d) == d.since_turn_on < Cooldown

Rejected_stamped(d) == [d EXCEPT !.in_active_control = FALSE, !.since_turn_on = 0]

\* Device.turn_on rejecting a call, lines 743-746 and 754-756: it returns
\* before line 758 and leaves through the finally clause
Rejected(d) == [d EXCEPT !.in_active_control = FALSE]

\* Device.turn_on up to its first await: [d, accepted, cmd]
BeginTurnOn(d, brightness_pct, percentage) ==
    IF ~is_device_online(d) \/ RateLimited(d)
    THEN [d |-> Rejected(d),
          accepted |-> FALSE, cmd |-> NoCmd]
    ELSE [d |-> [d EXCEPT !.in_active_control = TRUE, !.since_turn_on = 0],
          accepted |-> TRUE,
          cmd |-> TurnOnCmd(d, brightness_pct, percentage)]

\* Device.turn_off: dimmable Exhaust / Intake return without a call
\* ("Deaktiviert"), unless the device is select-driven
TurnOffCalls(d) ==
    d.isAcInfinDev \/ ~(d.deviceType \in {"Exhaust", "Intake", "CO2"} /\ d.isDimmable)

TurnOffCmd(d) ==
    IF d.isAcInfinDev THEN [svc |-> "select.select_option", val |-> 0]
    ELSE IF d.deviceType = "Light" /\ d.isDimmable THEN [svc |-> "light.turn_off", val |-> None]
    ELSE IF d.deviceType = "Ventilation" /\ d.isSpecialDevice THEN [svc |-> "light.turn_off", val |-> None]
    ELSE IF d.deviceType = "Ventilation" /\ d.isDimmable THEN [svc |-> "fan.turn_off", val |-> None]
    ELSE [svc |-> "switch.turn_off", val |-> None]

\* Device.turn_off after its call returned: lines 1143, 1202-1204, 1267, 1291
TurnOffDone(d) ==
    IF ~d.isAcInfinDev /\ d.deviceType = "Light" /\ d.isDimmable
    THEN [d EXCEPT !.isRunning = "off", !.voltage = 0]
    ELSE [d EXCEPT !.isRunning = "off"]

---------------------------------------------------------------------------
(* Suspended coroutines *)

Idle == [st |-> "idle", cont |-> "none", cval |-> None, cmd |-> NoCmd]

FreeSlots == {i \in 1..MaxTasks : tasks[i].st = "idle"}
Slot == CHOOSE i \in FreeSlots : \A j \in FreeSlots : i <= j

\* hist.preRun: the device was running when it last left normal mode; reset
\* by the first handler that runs after the device is back in normal mode
Hist == [preRun |-> dev.inWorkMode /\ hist.preRun]

\* one more turn-on command reached hass.services.async_call
LogOn == IF Len(hwOnAges) < MaxTasks + 1 THEN Append(hwOnAges, 0) ELSE hwOnAges

\* A handler that ends in "await self.turn_on(...)": d is the device as the
\* handler left it, cont/cval a further turn_on(percentage=cval) the handler
\* makes once the first returned (a rejected first call is followed by an
\* equally rejected second one: same clock, same switch state).
CallTurnOn(d, brightness_pct, percentage, cont, cval, h) ==
    LET r == BeginTurnOn(d, brightness_pct, percentage)
    IN  /\ dev' = r.d
        /\ hist' = h
        /\ IF r.accepted
           THEN /\ FreeSlots # {}
                /\ tasks' = [tasks EXCEPT ![Slot] = [st |-> "on", cont |-> cont,
                                                    cval |-> cval, cmd |-> r.cmd]]
                /\ hwOnAges' = LogOn
           ELSE UNCHANGED <<tasks, hwOnAges>>

\* A handler that ends in "await self.turn_off()"
CallTurnOff(d, h) ==
    /\ dev' = d
    /\ IF TurnOffCalls(d)
       THEN /\ FreeSlots # {}
            /\ tasks' = [tasks EXCEPT ![Slot] = [st |-> "off", cont |-> "none",
                                                cval |-> None, cmd |-> TurnOffCmd(d)]]
       ELSE /\ UNCHANGED tasks
    /\ hist' = h
    /\ UNCHANGED hwOnAges

\* A handler that returns without a hardware call
Return(d, h) ==
    /\ dev' = d
    /\ hist' = h
    /\ UNCHANGED <<tasks, hwOnAges>>

---------------------------------------------------------------------------
(* The device's handlers *)

\* deviceUpdater.deviceUpdateListner for the duty / intensity entity: the
\* listener leaves sensor and number values alone (line 1459 lists only
\* fan., light., switch., humidifier., select.), derives the control value
\* from the values held so far (line 1474) and then emits DeviceStateUpdate
\* (line 1477), whose handler Device.deviceUpdate stores the new value.
FeedbackUpdate(raw) ==
    /\ dev.fb # "none"
    /\ dev' = [checkForControlValue(dev) EXCEPT !.fbValue = raw]
    /\ hist' = Hist
    /\ UNCHANGED <<tasks, hwOnAges>>

\* deviceUpdateListner for the switch (or select) entity: lines 1459-1474
SwitchUpdate(v) ==
    /\ dev.switchValue # v
    /\ dev' = checkForControlValue(identifyIfRunningState([dev EXCEPT !.switchValue = v]))
    /\ hist' = Hist
    /\ UNCHANGED <<tasks, hwOnAges>>

SpecialLightTypes == {"LightFarRed", "LightUV", "LightBlue", "LightRed", "LightSpectrum"}

\* Device.WorkMode, workmode = True (lines 1364-1394)
WorkModeEnter(d, h) ==
    IF d.isDimmable
    THEN IF d.deviceType = "Light"
         THEN IF d.sunPhaseActive THEN Return(d, h)
              ELSE LET v == IF d.minVoltage # None /\ d.maxVoltage # None
                            THEN d.minVoltage ELSE d.initVoltage
                   IN  CallTurnOn([d EXCEPT !.voltage = v], v, None, "none", None, h)
         ELSE IF d.deviceType \in SpecialLightTypes THEN Return(d, h)
         ELSE LET d1 == [d EXCEPT !.dutyCycle = d.minDuty]
              IN  IF d.isSpecialDevice
                  THEN CallTurnOn(d1, d.minDuty, None, "pct", d.minDuty, h)
                  ELSE CallTurnOn(d1, None, d.minDuty, "none", None, h)
    ELSE IF d.deviceType \in {"Light", "Pump", "Sensor"} THEN Return(d, h)
    ELSE CallTurnOff(d, h)

\* Device.WorkMode, workmode = False (lines 1395-1422)
WorkModeExit(d, h) ==
    IF d.isDimmable
    THEN IF d.deviceType = "Light"
         THEN IF d.sunPhaseActive THEN Return(d, h)
              ELSE LET d1 == [d EXCEPT !.voltage = d.maxVoltage]
                   IN  IF d.isRunning = "on"
                       THEN CallTurnOn(d1, d.maxVoltage, None, "none", None, h)
                       ELSE Return(d1, h)
         ELSE LET d1 == [d EXCEPT !.dutyCycle = d.maxDuty]
              IN  IF d.isRunning # "on" THEN Return(d1, h)
                  ELSE IF d.isSpecialDevice
                  THEN CallTurnOn(d1, d.maxDuty, None, "pct", d.maxDuty, h)
                  ELSE CallTurnOn(d1, None, d.maxDuty, "none", None, h)
    ELSE IF d.deviceType \in {"Light", "Pump", "Sensor"} THEN Return(d, h)
    ELSE IF d.isRunning = "on" THEN CallTurnOn(d, None, None, "none", None, h)
    ELSE Return(d, h)

LightIsOff_never(d) == FALSE

\* hasattr(self, 'islightON') and not self.islightON, line 1356
LightIsOff(d) == d.islightON = "off"

\* Device.WorkMode; LightUV overrides it with a method that does nothing
\* (LightUV.py, lines 239-242)
WorkMode(workmode) ==
    /\ LET h == [Hist EXCEPT
                   !.preRun = IF workmode /\ ~dev.inWorkMode THEN dev.isRunning = "on"
                              ELSE hist.preRun]
       IN  IF dev.deviceType = "LightUV" THEN Return(dev, [h EXCEPT !.preRun = hist.preRun])
           ELSE IF LightIsOff(dev)
           THEN IF dev.deviceType \in SpecialLightTypes
                THEN Return(dev, [h EXCEPT !.preRun = hist.preRun])
                ELSE Return([dev EXCEPT !.pendingWorkMode = IF workmode THEN "True" ELSE "False"],
                            [h EXCEPT !.preRun = hist.preRun])
           ELSE IF workmode
           THEN WorkModeEnter([dev EXCEPT !.inWorkMode = TRUE], h)
           ELSE WorkModeExit([dev EXCEPT !.inWorkMode = FALSE], h)

\* Device.changeMinMaxValues (the second definition, lines 1696-1716, is the
\* one the class keeps)
changeMinMaxValues(d, newValue, h) ==
    IF ~d.isDimmable THEN Return(d, h)
    ELSE IF d.deviceType = "Light"
    THEN LET clamped_value == clamp_voltage(d, newValue)
         IN  CallTurnOn([d EXCEPT !.voltage = clamped_value], clamped_value, None, "none", None, h)
    ELSE LET clamped_value == Max2(d.minDuty, Min2(d.maxDuty, newValue))
         IN  IF d.isSpecialDevice
             THEN CallTurnOn([d EXCEPT !.dutyCycle = clamped_value], clamped_value, None, "none", None, h)
             ELSE CallTurnOn([d EXCEPT !.dutyCycle = clamped_value], None, clamped_value, "none", None, h)

\* Device.userSetMinMax (event SetMinMax); store is the dataStore entry
\* DeviceMinMax.<deviceType> the handler reads
userSetMinMax(store) ==
    /\ LET h == Hist
       IN  IF dev.sunPhaseActive \/ ~dev.isDimmable \/ ~store.present \/ ~store.active
           THEN Return(dev, h)
           ELSE IF dev.deviceType = "Light"
           THEN LET d1 == [dev EXCEPT !.minVoltage = store.min, !.maxVoltage = store.max]
                IN  changeMinMaxValues(d1, clamp_voltage(d1, d1.voltage), h)
           ELSE LET d1 == [dev EXCEPT !.minDuty = store.min, !.maxDuty = store.max]
                IN  changeMinMaxValues(d1, clamp_duty_cycle(d1, d1.dutyCycle), h)

IsRunning_always(d) == TRUE

\* "if self.isRunning" of the two min/max-control handlers
IsRunning(d) == d.isRunning = "on"

MinMaxDeviceTypes == {"Light", "Exhaust", "Intake", "Ventilation"}

\* Device.on_minmax_control_enabled (event MinMaxControlEnabled)
on_minmax_control_enabled(store) ==
    /\ LET h == Hist
       IN  IF dev.deviceType \notin MinMaxDeviceTypes \/ ~store.present \/ ~store.active
           THEN Return(dev, h)
           ELSE IF dev.deviceType = "Light"
           THEN LET d1 == [dev EXCEPT !.minVoltage = store.min, !.maxVoltage = store.max]
                    v == clamp_voltage(d1, d1.voltage)
                IN  IF IsRunning(d1) /\ d1.voltage # None
                    THEN CallTurnOn([d1 EXCEPT !.voltage = v], v, None, "none", None, h)
                    ELSE Return(d1, h)
           ELSE LET d1 == [dev EXCEPT !.minDuty = store.min, !.maxDuty = store.max]
                    v == Max2(d1.minDuty, Min2(d1.maxDuty, d1.dutyCycle))
                IN  IF IsRunning(d1) /\ d1.dutyCycle # None
                    THEN IF d1.isSpecialDevice
                         THEN CallTurnOn([d1 EXCEPT !.dutyCycle = v], v, None, "none", None, h)
                         ELSE CallTurnOn([d1 EXCEPT !.dutyCycle = v], None, v, "none", None, h)
                    ELSE Return(d1, h)

\* Device.PlantStageMinMax[plantStage] of a light ("Set by Light.py
\* subclass"), or the fallback (initVoltage, 100) of lines 1556-1558
StageMinMax(d) == {[min |-> d.initVoltage, max |-> 100]}

\* Device.on_minmax_control_disabled (event MinMaxControlDisabled)
on_minmax_control_disabled(store) ==
    /\ LET h == Hist
       IN  IF dev.deviceType \notin MinMaxDeviceTypes THEN Return(dev, h)
           ELSE IF dev.deviceType = "Light"
           THEN \E sm \in StageMinMax(dev) :
                  LET d1 == [dev EXCEPT !.minVoltage = sm.min, !.maxVoltage = sm.max]
                  IN  IF IsRunning(d1) /\ d1.voltage # None
                      THEN CallTurnOn([d1 EXCEPT !.voltage = d1.initVoltage],
                                      d1.initVoltage, None, "none", None, h)
                      ELSE Return(d1, h)
           ELSE LET d1 == IF store.present /\ store.active
                          THEN [dev EXCEPT !.minDuty = store.min, !.maxDuty = store.max]
                          ELSE dev
                    midpoint == d1.minDuty
                                + (((d1.maxDuty - d1.minDuty) \div 2) \div d1.steps) * d1.steps
                IN  IF IsRunning(d1) /\ d1.dutyCycle # None
                    THEN IF d1.isSpecialDevice
                         THEN CallTurnOn([d1 EXCEPT !.dutyCycle = midpoint], midpoint, None, "none", None, h)
                         ELSE CallTurnOn([d1 EXCEPT !.dutyCycle = midpoint], None, midpoint, "none", None, h)
                    ELSE Return(d1, h)

\* A caller's "await device.turn_on(brightness_pct=v)" / "turn_on()"
\* (UltraInstinctManager._execute_direct_control, _handle_direct_control)
turn_on(brightness_pct) ==
    /\ CallTurnOn(dev, brightness_pct, None,
                  "none", None, Hist)

\* A caller's "await device.turn_off()"
turn_off ==
    /\ CallTurnOff(dev, Hist)

\* hass.services.async_call returns (ok) or raises (~ok) and the suspended
\* coroutine runs on: turn_on sets isRunning and leaves through finally
\* (lines 1109-1112), turn_off sets isRunning (and voltage); an exception is
\* caught and logged by the method itself.
HwReturn(i, ok) ==
    /\ tasks[i].st # "idle"
    /\ LET t == tasks[i]
           h == Hist
       IN  IF t.st = "off"
           THEN /\ dev' = IF ok THEN TurnOffDone(dev) ELSE dev
                /\ tasks' = [tasks EXCEPT ![i] = Idle]
                /\ hist' = h
                /\ UNCHANGED hwOnAges
           ELSE LET d1 == [dev EXCEPT !.isRunning = IF ok THEN "on" ELSE @,
                                      !.in_active_control = FALSE]
                    r == BeginTurnOn([d1 EXCEPT !.in_active_control = TRUE], None, t.cval)
                IN  IF t.cont = "pct"
                    THEN /\ dev' = r.d
                         /\ hist' = h
                         /\ IF r.accepted
                            THEN /\ tasks' = [tasks EXCEPT ![i] = [st |-> "on", cont |-> "none",
                                                                 cval |-> None, cmd |-> r.cmd]]
                                 /\ hwOnAges' = LogOn
                            ELSE /\ tasks' = [tasks EXCEPT ![i] = Idle]
                                 /\ UNCHANGED hwOnAges
                    ELSE /\ dev' = d1
                         /\ tasks' = [tasks EXCEPT ![i] = Idle]
                         /\ hist' = h
                         /\ UNCHANGED hwOnAges

\* One second passes
Older(a) == a + 1 < Cooldown
Aged(ages) == [i \in 1..Len(ages) |-> ages[i] + 1]

Tick ==
    /\ dev.since_turn_on < Cooldown
    /\ dev' = [dev EXCEPT !.since_turn_on = @ + 1]
    /\ hwOnAges' = Aged(SelectSeq(hwOnAges, Older))
    /\ hist' = Hist
    /\ UNCHANGED tasks

---------------------------------------------------------------------------
(* Configuration and construction *)

InitVoltage == 20    \* Device.on_minmax_control_disabled: getattr(self, 'initVoltage', 20)
StepSize == 5        \* self.steps of the fan classes

BoundsPairs == {<<0, 0>>, <<20, 80>>, <<0, 100>>}

\* DeviceMinMax.<deviceType> as OGBConf declares it (Exhaust, Intake,
\* Ventilation, Light) with the values a user may have set; no entry for
\* the other device types
StoreSettings(deviceType) ==
    IF deviceType \in MinMaxDeviceTypes
    THEN {[present |-> TRUE, active |-> b # <<0, 0>>, min |-> b[1], max |-> b[2]] :
             b \in BoundsPairs}
    ELSE {[present |-> FALSE, active |-> FALSE, min |-> 0, max |-> 0]}

\* What identifySwitchesAndSensors and identifDimmable find: the device
\* type, its platform flags and its duty / intensity entity (fb)
Cfg(deviceType, isDimmable, isSpecialDevice, isAcInfinDev, fb) ==
    [deviceType |-> deviceType, isDimmable |-> isDimmable,
     isSpecialDevice |-> isSpecialDevice, isAcInfinDev |-> isAcInfinDev, fb |-> fb]

DeviceConfigs ==
    {Cfg("Light", TRUE, FALSE, FALSE, "sensor"), Cfg("Light", TRUE, FALSE, FALSE, "none"),
     Cfg("Exhaust", TRUE, FALSE, FALSE, "sensor"), Cfg("Exhaust", TRUE, FALSE, TRUE, "option"),
     Cfg("Ventilation", TRUE, TRUE, FALSE, "sensor"),
     Cfg("Heater", FALSE, FALSE, FALSE, "none"), Cfg("Pump", FALSE, FALSE, FALSE, "none")}

\* Device.__init__, lines 20-42
NewDevice(c, sw, raw) ==
    [deviceType |-> c.deviceType, isDimmable |-> c.isDimmable,
     isSpecialDevice |-> c.isSpecialDevice, isAcInfinDev |-> c.isAcInfinDev,
     fb |-> c.fb, fbValue |-> raw, switchValue |-> sw,
     voltageFromNumber |-> FALSE, isRunning |-> "off",
     voltage |-> None, dutyCycle |-> None,
     minVoltage |-> None, maxVoltage |-> None, minDuty |-> None, maxDuty |-> None,
     is_minmax_active |-> FALSE, inWorkMode |-> FALSE,
     in_active_control |-> FALSE, since_turn_on |-> Cooldown,
     islightON |-> "absent", sunPhaseActive |-> FALSE, pendingWorkMode |-> "absent",
     initVoltage |-> InitVoltage, steps |-> StepSize, scale |-> 1]

\* Device.deviceInit, lines 209-213
deviceInit(d, st) == checkMinMax(checkForControlValue(identifyIfRunningState(d)), st)

InitRaw == {Num(1100)}

Init ==
    /\ \E c \in DeviceConfigs, sw \in {"on", "off"}, raw \in InitRaw :
         \E store \in StoreSettings(c.deviceType),
            sun \in {c.deviceType = "Light" /\ c.fb = "none"} :
              dev = deviceInit([NewDevice(c, sw, IF c.fb = "none" THEN RawNone ELSE raw)
                                  EXCEPT !.sunPhaseActive = sun,
                                         !.islightON = IF c.deviceType = "Light" THEN "on" ELSE "absent"],
                               store)
    /\ tasks = [i \in 1..MaxTasks |-> Idle]
    /\ hwOnAges = <<>>
    /\ hist = [preRun |-> FALSE]
    /\ fn = Parked /\ reg = Parked /\ ui = Parked

\* the brightness_pct values the callers of turn_on pass
TurnOnArgs == {None, 75}

Next ==
    \/ \E raw \in RawValues : FeedbackUpdate(raw) /\ UNCHANGED otherThanDev
    \/ \E v \in {"on", "off", "unavailable"} : SwitchUpdate(v) /\ UNCHANGED otherThanDev
    \/ \E w \in BOOLEAN : WorkMode(w) /\ UNCHANGED otherThanDev
    \/ \E s \in StoreSettings(dev.deviceType) : userSetMinMax(s) /\ UNCHANGED otherThanDev
    \/ \E s \in StoreSettings(dev.deviceType) : on_minmax_control_enabled(s) /\ UNCHANGED otherThanDev
    \/ \E s \in StoreSettings(dev.deviceType) : on_minmax_control_disabled(s) /\ UNCHANGED otherThanDev
    \/ \E b \in TurnOnArgs : turn_on(b) /\ UNCHANGED otherThanDev
    \/ turn_off /\ UNCHANGED otherThanDev
    \/ \E i \in 1..MaxTasks, ok \in BOOLEAN : HwReturn(i, ok) /\ UNCHANGED otherThanDev
    \/ Tick /\ UNCHANGED otherThanDev

Spec == Init /\ [][Next]_vars

---------------------------------------------------------------------------
(* Properties of the actuator *)

\* the control value of a device: voltage for a Light, dutyCycle otherwise
ControlValue(d) == IF d.deviceType = "Light" THEN d.voltage ELSE d.dutyCycle
MinBound(d) == IF d.deviceType = "Light" THEN d.minVoltage ELSE d.minDuty
MaxBound(d) == IF d.deviceType = "Light" THEN d.maxVoltage ELSE d.maxDuty

\* min / max configured and the min/max-active flag set
BoundsActive(d) == d.is_minmax_active /\ MinBound(d) # None /\ MaxBound(d) # None

InFlight(st) == {i \in 1..MaxTasks : tasks[i].st = st}

\* C1: whenever the bounds of an actuator are active, its control value
\* (voltage of a Light, dutyCycle of any other kind) lies within
\* [min, max] after every handler that touched it.
C1_WithinActiveBounds ==
    BoundsActive(dev) /\ ControlValue(dev) # None
        => MinBound(dev) <= ControlValue(dev) /\ ControlValue(dev) <= MaxBound(dev)

\* C2: a control value, once set, is never negative and never above 100.
C2_WithinPercent ==
    ControlValue(dev) # None => 0 <= ControlValue(dev) /\ ControlValue(dev) <= 100

\* C4: for an Exhaust with active bounds, a feedback update whose raw value
\* converts to a number above max leaves dutyCycle = max, and one that
\* converts to a number below min leaves dutyCycle = min.
C4_FeedbackClamped ==
    [][\A raw \in RawNumbers :
         LET value == convert_to_int(raw, dev.isAcInfinDev)
         IN  FeedbackUpdate(raw) /\ dev.deviceType = "Exhaust" /\ BoundsActive(dev)
                => /\ value > dev.maxDuty => dev'.dutyCycle = dev.maxDuty
                   /\ value < dev.minDuty => dev'.dutyCycle = dev.minDuty]_vars

\* C5: leaving WorkMode, a dimmable actuator that was not running when
\* WorkMode was entered (and whose switch has not reported "on" since) gets
\* no turn-on command: the exit sends nothing to the hardware.
C5_ExitKeepsIdleOff ==
    [][WorkMode(FALSE) /\ dev.inWorkMode /\ dev.isDimmable /\ ~hist.preRun
         /\ dev.switchValue = "off"
          => hwOnAges' = hwOnAges /\ tasks' = tasks]_vars

\* the value Device.WorkMode drives a dimmable actuator to on entry
WorkModeValue(d) ==
    IF d.deviceType = "Light"
    THEN IF d.minVoltage # None /\ d.maxVoltage # None THEN d.minVoltage ELSE d.initVoltage
    ELSE d.minDuty

\* C6: entering WorkMode, a dimmable actuator that is online (its light on,
\* no sun phase running) has its control value set to the minimum bound
\* (Light without bounds: initVoltage) and a turn-on command carrying that
\* value goes to the hardware.
C6_EnterDrivesToMin ==
    [][WorkMode(TRUE) /\ ~dev.inWorkMode /\ dev.isDimmable /\ is_device_online(dev)
         /\ ~dev.sunPhaseActive /\ dev.islightON # "off"
          => /\ ControlValue(dev') = WorkModeValue(dev)
             /\ \E i \in 1..MaxTasks :
                  /\ tasks[i].st = "idle" /\ tasks'[i].st = "on"
                  /\ tasks'[i].cmd.val = WorkModeValue(dev)]_vars

\* C7: a turn_on call less than Cooldown seconds after the previous accepted
\* one sends nothing to the hardware and leaves the running flag and the
\* control value alone; no handler at all gets a turn-on command out in that
\* time, so the hardware sees at most one turn-on in any Cooldown seconds.
C7_RateLimit ==
    /\ [](Len(hwOnAges) <= 1)
    /\ [][dev.since_turn_on < Cooldown => Len(hwOnAges') <= Len(hwOnAges)]_vars
    /\ [][(\E b \in TurnOnArgs : turn_on(b)) /\ dev.since_turn_on < Cooldown
            => /\ tasks' = tasks /\ hwOnAges' = hwOnAges
               /\ dev'.isRunning = dev.isRunning
               /\ dev'.voltage = dev.voltage /\ dev'.dutyCycle = dev.dutyCycle]_vars

\* C7, the overlapping case: a call accepted one second ago is still
\* suspended in its hardware call, a second call has come and gone (its
\* finally clause cleared the in-control flag), one command went out.
C7_Witness ==
    /\ InFlight("on") # {} /\ ~dev.in_active_control
    /\ dev.since_turn_on = 1 /\ Len(hwOnAges) = 1

---------------------------------------------------------------------------
(* The two clamp functions on their own: every call with arguments from    *)
(* ClampBounds and ClampValues, numbers in tenths of a percent             *)

ClampScale == 10
ClampBounds == {None, 0, 200, 205, 800, 1000}
ClampValues == {None, 0 - 50, 0, 100, 200, 205, 500, 505, 800, 1100}

\* the attributes of self the two functions read
ClampSelf(lo, hi) ==
    [minVoltage |-> lo, maxVoltage |-> hi, minDuty |-> lo, maxDuty |-> hi,
     scale |-> ClampScale]

ClampInit ==
    /\ \E lo \in ClampBounds, hi \in ClampBounds, v \in ClampValues :
         /\ lo # None /\ hi # None => lo <= hi
         /\ fn = [f |-> "none", self |-> ClampSelf(lo, hi), value |-> v, result |-> None]
    /\ dev = Parked /\ tasks = Parked /\ hwOnAges = Parked /\ hist = Parked
    /\ reg = Parked /\ ui = Parked

CallClampVoltage ==
    /\ fn.f = "none"
    /\ fn' = [fn EXCEPT !.f = "clamp_voltage", !.result = clamp_voltage(fn.self, fn.value)]
    /\ UNCHANGED <<devVars, reg, ui>>

CallClampDutyCycle ==
    /\ fn.f = "none"
    /\ fn' = [fn EXCEPT !.f = "clamp_duty_cycle", !.result = clamp_duty_cycle(fn.self, fn.value)]
    /\ UNCHANGED <<devVars, reg, ui>>

ClampNext == CallClampVoltage \/ CallClampDutyCycle

SpecClamp == ClampInit /\ [][ClampNext]_vars

\* both bounds of the call are set
ClampBoundsSet == fn.self.minVoltage # None /\ fn.self.maxVoltage # None
ClampWithin(x) == fn.self.minVoltage <= x /\ x <= fn.self.maxVoltage
ClampWhole(x) == x = None \/ x % ClampScale = 0

---------------------------------------------------------------------------
(* Capability registry: dataStore "capabilities" and "devices"             *)

MaxDevices == 3      \* devices in the room's list at once

CapNames ==
    {"canHeat", "canCool", "canClimate", "canHumidify", "canDehumidify",
     "canVentilate", "canExhaust", "canIntake", "canLight", "canCO2", "canPump"}

\* OGBParams.CAP_MAPPING, the same table as capMapping of
\* Device.identifyCapabilities
CAP_MAPPING ==
    [cap \in CapNames |->
        CASE cap = "canHeat" -> {"heater"}
          [] cap = "canCool" -> {"cooler"}
          [] cap = "canClimate" -> {"climate"}
          [] cap = "canHumidify" -> {"humidifier"}
          [] cap = "canDehumidify" -> {"dehumidifier"}
          [] cap = "canVentilate" -> {"ventilation"}
          [] cap = "canExhaust" -> {"exhaust"}
          [] cap = "canIntake" -> {"intake"}
          [] cap = "canLight" -> {"light"}
          [] cap = "canCO2" -> {"co2"}
          [] cap = "canPump" -> {"pump"}]

\* the device names and types the registry is exercised with
RegNames == {"exhaust1", "exhaust2", "ogb", "air_humidity"}
RegTypes == {"Exhaust", "Intake", "Sensor"}

\* str.lower() on the device types in use
lower(deviceType) ==
    CASE deviceType = "Exhaust" -> "exhaust"
      [] deviceType = "Intake" -> "intake"
      [] deviceType = "Sensor" -> "sensor"
      [] OTHER -> deviceType

\* OGBData.capabilities default, and what capCleaner writes
EmptyCap == [state |-> FALSE, count |-> 0, devEntities |-> <<>>]

InSeq(x, seq) == \E i \in 1..Len(seq) : seq[i] = x

\* list.remove(x): the first occurrence goes
RemoveFirst(seq, x) ==
    LET i == CHOOSE k \in 1..Len(seq) : seq[k] = x /\ \A j \in 1..(k - 1) : seq[j] # x
    IN  [k \in 1..(Len(seq) - 1) |-> IF k < i THEN seq[k] ELSE seq[k + 1]]

\* list(dict.fromkeys(seq)): first occurrences, in order
RECURSIVE Unique(_)
Unique(seq) ==
    IF seq = <<>> THEN <<>>
    ELSE LET front == Unique(SubSeq(seq, 1, Len(seq) - 1))
             last == seq[Len(seq)]
         IN  IF InSeq(last, front) THEN front ELSE Append(front, last)

AlreadyRegistered_never(currentCap, deviceName) == FALSE

\* Device.identifyCapabilities, line 521: the duplicate check
AlreadyRegistered(currentCap, deviceName) == InSeq(deviceName, currentCap.devEntities)

\* Device.identifyCapabilities for a device of the given name and type
identifyCapabilities(capabilities, deviceName, deviceType) ==
    IF deviceName = "ogb" THEN capabilities
    ELSE [cap \in CapNames |->
            LET currentCap == capabilities[cap]
            IN  IF lower(deviceType) \notin CAP_MAPPING[cap] THEN currentCap
                ELSE IF AlreadyRegistered(currentCap, deviceName) THEN currentCap
                ELSE [state |-> TRUE, count |-> currentCap.count + 1,
                      devEntities |-> Append(currentCap.devEntities, deviceName)]]

\* OGBDeviceManager.deduplicateCapabilities
deduplicateCapabilities(capabilities) ==
    [cap \in CapNames |->
        LET cap_data == capabilities[cap]
            unique_entities == Unique(cap_data.devEntities)
        IN  IF Len(unique_entities) # Len(cap_data.devEntities)
            THEN [state |-> Len(unique_entities) > 0, count |-> Len(unique_entities),
                  devEntities |-> unique_entities]
            ELSE cap_data]

\* mainControl values: the two that setupDevice/removeDevice accept and one
\* they reject
MainControls == {"HomeAssistant", "Node-RED"}
ControlAllowed(mainControl) == mainControl \in {"HomeAssistant", "Premium"}

RegDevice(deviceName, deviceType) == [deviceName |-> deviceName, deviceType |-> deviceType]

\* OGBDeviceManager.setupDevice -> addDevice -> identify_device, whose Device
\* constructor runs deviceInit -> identifyCapabilities before the device is
\* appended to the list
setupDevice(deviceName, deviceType) ==
    /\ Len(reg.devices) < MaxDevices
    /\ reg' = IF ~ControlAllowed(reg.mainControl) THEN reg
              ELSE [reg EXCEPT
                      !.capabilities = identifyCapabilities(@, deviceName, deviceType),
                      !.devices = Append(@, RegDevice(deviceName, deviceType))]

DerivedSensor(deviceName) == deviceName \in {"air_humidity"}

\* OGBDeviceManager.removeDevice
removeDevice(deviceName) ==
    /\ reg' =
        IF ~ControlAllowed(reg.mainControl) \/ DerivedSensor(deviceName) THEN reg
        ELSE IF ~\E i \in 1..Len(reg.devices) : reg.devices[i].deviceName = deviceName THEN reg
        ELSE LET i == CHOOSE k \in 1..Len(reg.devices) :
                          /\ reg.devices[k].deviceName = deviceName
                          /\ \A j \in 1..(k - 1) : reg.devices[j].deviceName # deviceName
                 deviceToRemove == reg.devices[i]
             IN  [reg EXCEPT
                    !.devices = RemoveFirst(@, deviceToRemove),
                    !.capabilities =
                        [cap \in CapNames |->
                            LET currentCap == @[cap]
                            IN  IF /\ lower(deviceToRemove.deviceType) \in CAP_MAPPING[cap]
                                   /\ InSeq(deviceToRemove.deviceName, currentCap.devEntities)
                                THEN LET count == Max2(0, currentCap.count - 1)
                                     IN  [state |-> count > 0, count |-> count,
                                          devEntities |-> RemoveFirst(currentCap.devEntities,
                                                                      deviceToRemove.deviceName)]
                                ELSE currentCap]]

\* OGBDeviceManager.capCleaner
capCleaner ==
    /\ reg' = [reg EXCEPT !.devices = <<>>,
                          !.capabilities = [cap \in CapNames |-> EmptyCap]]

\* OGBDeviceManager.init, and any later call of deduplicateCapabilities
Deduplicate ==
    reg' = [reg EXCEPT !.capabilities = deduplicateCapabilities(@)]

\* the store as OGBData constructs it; mainControl is the stored setting
CapInit ==
    /\ reg \in [mainControl : MainControls, devices : {<<>>},
                capabilities : {[cap \in CapNames |-> EmptyCap]}]
    /\ dev = Parked /\ tasks = Parked /\ hwOnAges = Parked /\ hist = Parked
    /\ fn = Parked /\ ui = Parked

CapNext ==
    \/ (\E deviceName \in RegNames, deviceType \in RegTypes : setupDevice(deviceName, deviceType))
          /\ UNCHANGED <<devVars, fn, ui>>
    \/ (\E deviceName \in RegNames : removeDevice(deviceName)) /\ UNCHANGED <<devVars, fn, ui>>
    \/ capCleaner /\ UNCHANGED <<devVars, fn, ui>>
    \/ Deduplicate /\ UNCHANGED <<devVars, fn, ui>>

SpecCap == CapInit /\ [][CapNext]_vars

CapCount(cap, deviceName) ==
    Cardinality({i \in 1..Len(reg.capabilities[cap].devEntities) :
                    reg.capabilities[cap].devEntities[i] = deviceName})

\* C8: for every capability, after any sequence of registrations, removals,
\* capCleaner and deduplicateCapabilities calls, count equals the number of
\* entries of devEntities and no device name appears twice; registering a
\* name again for canExhaust leaves the capability as it was, the name
\* entered exactly once.
C8_CountMatchesEntities ==
    /\ [](\A cap \in CapNames :
            /\ reg.capabilities[cap].count = Len(reg.capabilities[cap].devEntities)
            /\ \A deviceName \in RegNames : CapCount(cap, deviceName) <= 1)
    /\ [][\A deviceName \in RegNames \ {"ogb"} :
            setupDevice(deviceName, "Exhaust") /\ ControlAllowed(reg.mainControl)
            => /\ InSeq(deviceName, reg'.capabilities["canExhaust"].devEntities)
               /\ InSeq(deviceName, reg.capabilities["canExhaust"].devEntities)
                    => reg'.capabilities["canExhaust"] = reg.capabilities["canExhaust"]]_vars

\* the same name set up twice as an exhaust: two devices in the list, one
\* canExhaust entry
C8_Witness ==
    /\ reg # Parked
    /\ \E i, j \in 1..Len(reg.devices) :
          i < j /\ reg.devices[i] = RegDevice("exhaust1", "Exhaust") /\ reg.devices[j] = reg.devices[i]
    /\ reg.capabilities["canExhaust"] = [state |-> TRUE, count |-> 1, devEntities |-> <<"exhaust1">>]

---------------------------------------------------------------------------
(* UltraInstinctManager: sensor history, gradients and predictive targets. *)
(* Sensor readings are in tenths (vpd in hundredths); computed quantities  *)
(* are in thousandths of a degree, percent or degree per hour; stored      *)
(* targets are in tenths, as round(x, 1) leaves them.                      *)

MaxCycles == 3       \* control cycles run

Milli == 1000
update_interval == 30
gradient_history_size == 20

\* reading in tenths -> thousandths
ToMilli(x) == 100 * x

\* Python truthiness of a reading: neither None nor 0
Truthy(x) == x # None /\ x # 0

\* a or b
Or(a, b) == IF Truthy(a) THEN a ELSE b

RECURSIVE SumSeq(_)
SumSeq(seq) == IF seq = <<>> THEN 0 ELSE seq[1] + SumSeq(Tail(seq))

\* round(x, 1) of a value in thousandths, in tenths (ties to the even tenth)
Round1(x) ==
    LET q == x \div 100
        r == x % 100
    IN  IF r > 50 \/ (r = 50 /\ q % 2 = 1) THEN q + 1 ELSE q

\* round(x, 2) of a value in thousandths, in hundredths
Round2(x) ==
    LET q == x \div 10
        r == x % 10
    IN  IF r > 5 \/ (r = 5 /\ q % 2 = 1) THEN q + 1 ELSE q

ZeroGradients ==
    [outside_to_ambient_temp |-> 0, outside_to_ambient_hum |-> 0,
     ambient_to_tent_temp |-> 0, ambient_to_tent_hum |-> 0,
     temp_trend |-> 0, hum_trend |-> 0]

TooFewSamples_one(sensor_history) == Len(sensor_history) < 1

\* _calculate_gradients, line 235
TooFewSamples(sensor_history) == Len(sensor_history) < 2

\* (a - b) / time_delta_hours, or 0.0 when one of the readings is None
Gradient(a, b, seconds) ==
    IF a # None /\ b # None THEN TruncDiv((ToMilli(a) - ToMilli(b)) * 3600, seconds) ELSE 0

\* the rates of change the trend loop collects for one reading
Changes(sensor_history, key) ==
    LET n == Len(sensor_history)
        RECURSIVE Collect(_)
        Collect(i) ==
            IF i <= Max2(0, n - 4) THEN <<>>
            ELSE LET curr == sensor_history[i + 1]
                     prev == sensor_history[i]
                     dt == curr.timestamp - prev.timestamp
                 IN  IF i > 0 /\ dt > 0 /\ Truthy(curr[key]) /\ Truthy(prev[key])
                     THEN <<TruncDiv((ToMilli(curr[key]) - ToMilli(prev[key])) * 3600, dt)>>
                              \o Collect(i - 1)
                     ELSE Collect(i - 1)
    IN  Collect(n - 1)

Trend(sensor_history, key) ==
    IF Len(sensor_history) >= 3
    THEN LET changes == Changes(sensor_history, key)
         IN  IF changes # <<>> THEN TruncDiv(SumSeq(changes), Len(changes)) ELSE 0
    ELSE 0

\* UltraInstinctManager._calculate_gradients
_calculate_gradients(sensor_history) ==
    IF TooFewSamples(sensor_history) THEN ZeroGradients
    ELSE LET latest == sensor_history[Len(sensor_history)]
             oldest == sensor_history[1]
             delta == latest.timestamp - oldest.timestamp
             seconds == IF delta = 0 THEN 1800 ELSE delta
         IN  [outside_to_ambient_temp |-> Gradient(latest.outside_temp, latest.ambient_temp, seconds),
              outside_to_ambient_hum |-> Gradient(latest.outside_hum, latest.ambient_hum, seconds),
              ambient_to_tent_temp |-> Gradient(latest.ambient_temp, latest.tent_temp, seconds),
              ambient_to_tent_hum |-> Gradient(latest.ambient_hum, latest.tent_hum, seconds),
              temp_trend |-> Trend(sensor_history, "tent_temp"),
              hum_trend |-> Trend(sensor_history, "tent_hum")]

outside_ambient_inertia == 7     \* tenths: 0.7
prediction_window_minutes == 5

\* predicted change of one reading over the prediction window: the share
\* (in tenths) of the ambient change that transfers, plus the trend
PredictedChange(gradient, trend, transfer) ==
    LET outside_influence == TruncDiv(gradient * outside_ambient_inertia, 10)
        ambient_change == TruncDiv(outside_influence * prediction_window_minutes, 60)
    IN  TruncDiv(ambient_change * transfer, 10)
            + TruncDiv(trend * prediction_window_minutes, 60)

pre_increase_uncapped(temp_factor) == temp_factor * 5

\* min(15, temp_factor * 5), line 354
pre_increase(temp_factor) == Min2(15 * Milli, temp_factor * 5)

\* max(-10, temp_factor * 3), line 356
pre_decrease(temp_factor) == Max2(0 - 10 * Milli, temp_factor * 3)

\* UltraInstinctManager._calculate_predictive_factors
_calculate_predictive_factors(sensor_data, gradients) ==
    LET tent_temp == Or(sensor_data.tent_temp, sensor_data.temperature)
        tent_hum == Or(sensor_data.tent_hum, sensor_data.humidity)
        tempKnown == sensor_data.outside_temp # None /\ sensor_data.ambient_temp # None
                        /\ tent_temp # None
        humKnown == sensor_data.outside_hum # None /\ sensor_data.ambient_hum # None
                        /\ tent_hum # None
        temp_factor == IF tempKnown
                       THEN PredictedChange(gradients.outside_to_ambient_temp, gradients.temp_trend, 3)
                       ELSE 0
        hum_factor == IF humKnown
                      THEN PredictedChange(gradients.outside_to_ambient_hum, gradients.hum_trend, 4)
                      ELSE 0
        exhaust_factor == IF ~tempKnown THEN 0
                          ELSE IF temp_factor > 500 THEN pre_increase(temp_factor)
                          ELSE IF temp_factor < 0 - 500 THEN pre_decrease(temp_factor)
                          ELSE 0
    IN  [temp_predicted_change |-> temp_factor,
         hum_predicted_change |-> hum_factor,
         exhaust_pre_adjust |-> exhaust_factor]

\* OGBData.plantStages: minTemp and maxTemp of each stage
StageNames ==
    {"Germination", "Clones", "EarlyVeg", "MidVeg", "LateVeg",
     "EarlyFlower", "MidFlower", "LateFlower"}

plantStages ==
    [stage \in StageNames |->
        CASE stage \in {"Germination", "Clones"} -> [minTemp |-> 20, maxTemp |-> 24]
          [] stage = "EarlyVeg" -> [minTemp |-> 22, maxTemp |-> 26]
          [] stage = "MidVeg" -> [minTemp |-> 23, maxTemp |-> 27]
          [] stage = "LateVeg" -> [minTemp |-> 24, maxTemp |-> 27]
          [] stage = "EarlyFlower" -> [minTemp |-> 22, maxTemp |-> 26]
          [] stage = "MidFlower" -> [minTemp |-> 21, maxTemp |-> 25]
          [] stage = "LateFlower" -> [minTemp |-> 19, maxTemp |-> 24]]

\* the plantStage settings the store is read with: unset, a stage, a stage
\* spelled with a hyphen, and a name that is no stage
StoredStages == {"", "LateFlower", "Mid-Flower", "Seedling"}

\* stage.replace(" ", "").replace("-", "") on the names in use
Normalized(stage) == IF stage = "Mid-Flower" THEN "MidFlower" ELSE stage

NoStage == [minTemp |-> None, maxTemp |-> None]

\* UltraInstinctManager._get_plant_stage_data; NoStage stands for None
_get_plant_stage_data(plant_stage) ==
    IF plant_stage = "" THEN NoStage
    ELSE IF plant_stage \in StageNames THEN plantStages[plant_stage]
    ELSE IF Normalized(plant_stage) \in StageNames THEN plantStages[Normalized(plant_stage)]
    ELSE NoStage

\* vpd.perfection and vpd.perfectMax are unset in the store: "or 1.0", "or 1.2"
target_vpd == 100
max_vpd == 120

\* stage_exhaust.get(plant_stage, 55)
StageExhaust(plant_stage) ==
    CASE plant_stage = "Germination" -> 15
      [] plant_stage = "Clones" -> 20
      [] plant_stage = "EarlyVeg" -> 30
      [] plant_stage = "MidVeg" -> 45
      [] plant_stage = "LateVeg" -> 55
      [] plant_stage = "EarlyFlower" -> 60
      [] plant_stage = "MidFlower" -> 70
      [] plant_stage = "LateFlower" -> 75
      [] OTHER -> 55

\* UltraInstinctManager._calculate_base_exhaust_speed, in percent; called
\* with a current_vpd that is a number
_calculate_base_exhaust_speed(plant_stage, sensor_data, current_vpd) ==
    LET base == StageExhaust(plant_stage)
        byVpd == IF current_vpd > max_vpd + 20 THEN base + 15
                 ELSE IF current_vpd < target_vpd - 30 THEN base - 10
                 ELSE IF current_vpd > target_vpd + 10 THEN base + 5
                 ELSE base
        ambient_temp == sensor_data.ambient_temp
        byAmbient == IF ambient_temp = None THEN byVpd
                     ELSE IF ambient_temp > 280 THEN byVpd + 5
                     ELSE IF ambient_temp < 150 THEN byVpd - 5
                     ELSE byVpd
    IN  Max2(10, Min2(100, byAmbient))

\* stage_light.get(plant_stage, 80)
_calculate_base_light_intensity(plant_stage) ==
    CASE plant_stage = "Germination" -> 25
      [] plant_stage = "Clones" -> 35
      [] plant_stage = "EarlyVeg" -> 50
      [] plant_stage = "MidVeg" -> 65
      [] plant_stage = "LateVeg" -> 80
      [] plant_stage = "EarlyFlower" -> 85
      [] plant_stage = "MidFlower" -> 95
      [] plant_stage = "LateFlower" -> 95
      [] OTHER -> 80

\* the plant stage _calculate_targets works with
PlantStage(stored) == IF stored = "" THEN "LateVeg" ELSE stored

\* the temperature range _calculate_targets works with, in degrees
TempRange(stored) ==
    LET stage_data == _get_plant_stage_data(PlantStage(stored))
    IN  IF stage_data # NoStage THEN stage_data ELSE [minTemp |-> 20, maxTemp |-> 30]

keep_within_off(lo, hi, x) == x

\* max(lo, min(hi, x)), lines 437-438, 444, 460
keep_within(lo, hi, x) == Max2(lo, Min2(hi, x))

intake_for_same(target_exhaust) == target_exhaust

\* target_exhaust * 0.85, line 449
intake_for(target_exhaust) == TruncDiv(target_exhaust * 85, 100)

\* UltraInstinctManager._calculate_targets when current_vpd is a number:
\* the targets and predictive_adjustments it stores
_calculate_targets(sensor_history, sensor_data, stored) ==
    LET gradients == _calculate_gradients(sensor_history)
        predictive == _calculate_predictive_factors(sensor_data, gradients)
        plant_stage == PlantStage(stored)
        range == TempRange(stored)
        temp_min == range.minTemp * Milli
        temp_max == range.maxTemp * Milli
        hum_optimal == 60 * Milli
        target_temp == (temp_min + temp_max) \div 2
        predicted_temp_change == predictive.temp_predicted_change
        predicted_hum_change == predictive.hum_predicted_change
        predictive_temp_adjustment == TruncDiv(predicted_temp_change * 7, 10)
        predictive_hum_adjustment == TruncDiv(predicted_hum_change * 6, 10)
        adjusted_target_temp == keep_within(temp_min, temp_max, target_temp - predictive_temp_adjustment)
        adjusted_target_hum == keep_within(40 * Milli, 85 * Milli, hum_optimal - predictive_hum_adjustment)
        base_exhaust == _calculate_base_exhaust_speed(plant_stage, sensor_data, sensor_data.vpd)
        target_exhaust == keep_within(10 * Milli, 100 * Milli,
                                      base_exhaust * Milli + predictive.exhaust_pre_adjust)
        target_intake == intake_for(target_exhaust)
        base_light == _calculate_base_light_intensity(plant_stage) * Milli
        target_light == keep_within(0, 100 * Milli,
                            IF predicted_temp_change > 1000
                            THEN base_light - Min2(20 * Milli, predicted_temp_change * 8)
                            ELSE base_light)
    IN  [targets |->
            [temperature_target |-> Round1(adjusted_target_temp),
             humidity_target |-> Round1(adjusted_target_hum),
             light_intensity |-> Round1(target_light),
             exhaust_speed |-> Round1(target_exhaust),
             intake_speed |-> Round1(target_intake)],
         predictive_adjustments |->
            [temp_predicted_change |-> Round2(predicted_temp_change),
             hum_predicted_change |-> Round2(predicted_hum_change),
             temp_adjustment |-> Round2(predictive_temp_adjustment),
             hum_adjustment |-> Round2(predictive_hum_adjustment),
             exhaust_pre_adjust |-> Round1(predictive.exhaust_pre_adjust)]]

\* sensor_data as _get_sensor_data reads it (co2 and light_intensity, which
\* nothing reads, left out)
Reading(temperature, humidity, vpd, tent, ambient, outside) ==
    [temperature |-> temperature, humidity |-> humidity, vpd |-> vpd,
     tent_temp |-> tent[1], tent_hum |-> tent[2],
     ambient_temp |-> ambient[1], ambient_hum |-> ambient[2],
     outside_temp |-> outside[1], outside_hum |-> outside[2]]

\* the readings the control cycle is run with: a mild room, a very hot and a
\* very cold outside, no outside sensor, and the store as constructed
SensorReadings ==
    {Reading(250, 600, 100, <<None, None>>, <<220, 500>>, <<100, 700>>),
     Reading(None, None, 150, <<260, 550>>, <<200, 500>>, <<5000, 900>>),
     Reading(None, None, 60, <<240, 650>>, <<300, 450>>, <<0 - 4000, 100>>),
     Reading(250, 600, 100, <<250, 600>>, <<220, 500>>, <<None, None>>),
     Reading(None, None, None, <<None, None>>, <<None, None>>, <<None, None>>)}

NoTargets ==
    [temperature_target |-> None, humidity_target |-> None, light_intensity |-> None,
     exhaust_speed |-> None, intake_speed |-> None]

NoStatus == [gradients |-> ZeroGradients, sensor_history_count |-> None]

\* UltraInstinctManager._update_sensor_history
pop_last(list) == SubSeq(list, 1, Len(list) - 1)

\* list.pop(0), lines 223 and 716
pop(list) == Tail(list)

_update_sensor_history(sensor_history, sensor_data, now) ==
    LET appended == Append(sensor_history, [timestamp |-> now] @@ sensor_data)
    IN  IF Len(appended) > gradient_history_size THEN pop(appended) ELSE appended

\* the mean ambient_to_tent_temp of the last ten control_history entries
RecentMean(control_history) ==
    LET n == Len(control_history)
        recent == SubSeq(control_history, Max2(1, n - 9), n)
    IN  TruncDiv(SumSeq(recent), Len(recent))

\* UltraInstinctManager._learn_from_cycle; control_history keeps, of each
\* entry, the gradient the learning reads.  Inertia in hundredths.
_learn_from_cycle(u) ==
    LET gradients == _calculate_gradients(u.sensor_history)
        appended == Append(u.control_history, gradients.ambient_to_tent_temp)
        control_history == IF Len(appended) > 100 THEN pop(appended) ELSE appended
        mean == RecentMean(control_history)
    IN  [u EXCEPT !.control_history = control_history,
                  !.ambient_tent_inertia =
                      IF Len(u.sensor_history) < 10 THEN @
                      ELSE IF mean > 2000 THEN Min2(80, @ + 5)
                      ELSE IF mean < 500 THEN Max2(30, @ - 5)
                      ELSE @]

\* UltraInstinctManager.start_control
start_control ==
    /\ ui' = [ui EXCEPT !.control_active = TRUE]

\* UltraInstinctManager.stop_control, and emergency_stop with no devices
stop_control ==
    /\ ui' = [ui EXCEPT !.control_active = FALSE]

\* one turn of _control_loop: _execute_control_cycle, then the sleep.
\* A current_vpd of None raises in _calculate_base_exhaust_speed, after the
\* history was updated and before any target is stored; the loop logs it.
\* With self.devices empty _execute_direct_control commands nothing.
ControlCycle(sensor_data, stored) ==
    /\ ui.control_active
    /\ LET sensor_history == _update_sensor_history(ui.sensor_history, sensor_data, ui.now)
           u == [ui EXCEPT !.sensor_history = sensor_history,
                           !.now = @ + update_interval,
                           !.cycles = @ + 1]
       IN  IF sensor_data.vpd = None THEN ui' = u
           ELSE LET calc == _calculate_targets(sensor_history, sensor_data, stored)
                IN  ui' = _learn_from_cycle(
                            [u EXCEPT !.targets = calc.targets,
                                      !.predictive_adjustments = calc.predictive_adjustments,
                                      !.plant_stage = stored,
                                      !.last_control_time = ui.now])

\* the cycles of a run
_execute_control_cycle(sensor_data, stored) ==
    /\ ui.cycles < MaxCycles
    /\ ControlCycle(sensor_data, stored)

\* UltraInstinctManager.get_control_status: the gradients and the sample
\* count of the dict it returns
get_control_status ==
    /\ ui' = [ui EXCEPT !.status = [gradients |-> _calculate_gradients(ui.sensor_history),
                                    sensor_history_count |-> Len(ui.sensor_history)]]

\* the manager as constructed; plant_stage is the plantStage setting the
\* latest completed target calculation read
NewManager ==
    [control_active |-> FALSE, sensor_history |-> <<>>, targets |-> NoTargets,
     predictive_adjustments |-> [temp_adjustment |-> 0, hum_adjustment |-> 0,
                                 exhaust_pre_adjust |-> 0, light_pre_adjust |-> 0],
     control_history |-> <<>>, ambient_tent_inertia |-> 50,
     last_control_time |-> None, plant_stage |-> "", status |-> NoStatus,
     now |-> 0, cycles |-> 0]

UIInit ==
    /\ ui = NewManager
    /\ dev = Parked /\ tasks = Parked /\ hwOnAges = Parked /\ hist = Parked
    /\ fn = Parked /\ reg = Parked

UINext ==
    \/ start_control /\ UNCHANGED <<devVars, fn, reg>>
    \/ stop_control /\ UNCHANGED <<devVars, fn, reg>>
    \/ (\E sensor_data \in SensorReadings, stored \in StoredStages :
            _execute_control_cycle(sensor_data, stored)) /\ UNCHANGED <<devVars, fn, reg>>
    \/ get_control_status /\ UNCHANGED <<devVars, fn, reg>>

SpecUI == UIInit /\ [][UINext]_vars

\* C9: _calculate_gradients called with 0 or 1 buffered samples returns a
\* gradient set whose six entries are all zero (seen in the dict that
\* get_control_status returns, next to the sample count of the call).
C9_FewSamplesZeroGradients ==
    ui.status.sensor_history_count \in {0, 1}
    => /\ ui.status.gradients.outside_to_ambient_temp = 0
       /\ ui.status.gradients.outside_to_ambient_hum = 0
       /\ ui.status.gradients.ambient_to_tent_temp = 0
       /\ ui.status.gradients.ambient_to_tent_hum = 0
       /\ ui.status.gradients.temp_trend = 0
       /\ ui.status.gradients.hum_trend = 0

\* a status asked for with one sample buffered, whose outside, ambient and
\* tent readings all differ
C9_Witness ==
    /\ ui # Parked
    /\ ui.status.sensor_history_count = 1
    /\ Len(ui.sensor_history) = 1
    /\ ui.sensor_history[1].outside_temp = 5000
    /\ ui.sensor_history[1].ambient_temp = 200
    /\ ui.sensor_history[1].tent_temp = 260

\* the range the stage of a stored setting has: that of the stage named,
\* 20..30 when the name is no stage
StageRange(stored) ==
    IF Normalized(stored) \in StageNames THEN plantStages[Normalized(stored)]
    ELSE [minTemp |-> 20, maxTemp |-> 30]

\* C10: after every target calculation the stored temperature_target lies
\* within [minTemp, maxTemp] of the plant stage the calculation read
\* (20..30 when that stage is unknown), however large the predicted
\* temperature change.  Targets are in tenths of a degree.
C10_TargetWithinStageRange ==
    ui.targets.temperature_target # None
    => /\ 10 * StageRange(ui.plant_stage).minTemp <= ui.targets.temperature_target
       /\ ui.targets.temperature_target <= 10 * StageRange(ui.plant_stage).maxTemp

\* a calculation for LateFlower with more than 500 degrees of predicted
\* rise (in hundredths) stored the stage's minimum
C10_Witness ==
    /\ ui # Parked
    /\ ui.targets.temperature_target = 190
    /\ ui.plant_stage = "LateFlower"
    /\ ui.predictive_adjustments.temp_predicted_change > 50000

---------------------------------------------------------------------------
(* Further properties of the actuator *)

\* the raw values convert_to_int cannot convert
InvalidRaw == {raw \in RawValues : convert_to_int(raw, FALSE) = None}

\* C13: a feedback update whose raw value is an invalid sentinel or is not
\* a number leaves dutyCycle and voltage as they were.
C13_InvalidFeedbackIgnored ==
    [][\A raw \in InvalidRaw :
          FeedbackUpdate(raw) => dev'.dutyCycle = dev.dutyCycle /\ dev'.voltage = dev.voltage]_vars

\* C14: while a turn-on command of the actuator is in flight, a feedback
\* update changes neither dutyCycle nor voltage, and the guard flag is set
\* exactly while a command is in flight.
C14_NoDerivationInFlight ==
    /\ [][\A raw \in RawValues :
            FeedbackUpdate(raw) /\ InFlight("on") # {}
            => dev'.dutyCycle = dev.dutyCycle /\ dev'.voltage = dev.voltage]_vars
    /\ [](InFlight("on") = {} /\ InFlight("off") = {} => ~dev.in_active_control)

\* C18: handling MinMaxControlEnabled or MinMaxControlDisabled for an
\* actuator whose running flag is not on sends no turn-on command and
\* leaves the running flag alone.
C18_MinMaxKeepsOffOff ==
    [][(\E store \in StoreSettings(dev.deviceType) :
            on_minmax_control_enabled(store) \/ on_minmax_control_disabled(store))
        /\ dev.isRunning # "on"
        => hwOnAges' = hwOnAges /\ tasks' = tasks /\ dev'.isRunning = dev.isRunning]_vars

\* an exhaust that is off took the stored bounds 20..80 without a command:
\* its duty cycle is still above them, nothing is or was in flight
C18_Witness ==
    /\ dev # Parked
    /\ dev.deviceType = "Exhaust" /\ dev.isRunning = "off"
    /\ dev.minDuty = 20 /\ dev.maxDuty = 80 /\ dev.dutyCycle > 80
    /\ InFlight("on") = {} /\ hwOnAges = <<>>

---------------------------------------------------------------------------
(* The prediction on its own: histories of 2..gradient_history_size        *)
(* samples taken update_interval apart while the outside temperature rises *)
(* by 4 degrees an hour (a tenth every 90 s), ambient 2 degrees below the  *)
(* outside and the tent 1 degree below ambient.                            *)

\* the k-th sample (k = 0, 1, ...) of such a history: a tenth of a degree
\* more every 90 seconds; phase shifts the
\* moment the sensors tick over; tentKey: the store holds the tent
\* temperature under tentData.Temperature (else only under
\* tentData.temperature)
RisingSample(k, phase, tentKey) ==
    LET outside == 200 + ((k * update_interval + phase) \div 90)
        ambient == outside - 20
        tent == ambient - 10
    IN  [timestamp |-> k * update_interval] @@
        Reading(IF tentKey THEN None ELSE tent, None, 100,
                <<IF tentKey THEN tent ELSE None, None>>, <<ambient, None>>, <<outside, None>>)

RisingHistory(n, phase, tentKey) == [i \in 1..n |-> RisingSample(i - 1, phase, tentKey)]

PredictInit ==
    /\ \E n \in 2..gradient_history_size, phase \in {0, 30, 60}, tentKey \in BOOLEAN :
          fn = [f |-> "none", sensor_history |-> RisingHistory(n, phase, tentKey),
                result |-> None]
    /\ dev = Parked /\ tasks = Parked /\ hwOnAges = Parked /\ hist = Parked
    /\ reg = Parked /\ ui = Parked

\* _calculate_targets, lines 396-397: the factors for the latest sample
CallPredict ==
    /\ fn.f = "none"
    /\ fn' = [fn EXCEPT !.f = "_calculate_predictive_factors",
                        !.result = _calculate_predictive_factors(
                                       fn.sensor_history[Len(fn.sensor_history)],
                                       _calculate_gradients(fn.sensor_history))]
    /\ UNCHANGED <<devVars, reg, ui>>

PredictNext == CallPredict

SpecPredict == PredictInit /\ [][PredictNext]_vars

\* C12: in this scenario, with at least 2 samples buffered, the predicted
\* temperature change is strictly positive and the exhaust pre-adjustment
\* is strictly positive and at most 15 (thousandths: 15000), however long
\* the buffered history.
C12_RisingOutsidePreAdjusts ==
    fn.f = "_calculate_predictive_factors"
    => /\ fn.result.temp_predicted_change > 0
       /\ fn.result.exhaust_pre_adjust > 0
       /\ fn.result.exhaust_pre_adjust <= 15 * Milli
----------------------------------------------------------------------------
(* The control loop with managed devices.  The manager's owner fills       *)
(* self.devices (line 79, "populated on start") with Device objects under   *)
(* the names _execute_direct_control looks up; the loop task, stop_control  *)
(* and emergency_stop interleave at their awaits.                           *)

MaxLoopCycles == 2

\* iteration order of self.devices
DeviceOrder == <<"light", "exhaust", "intake", "humidifier", "dehumidifier", "heater">>

\* a managed Device: the fields the manager and Device.turn_off read
Managed(deviceType, isDimmable, value) ==
    [deviceType |-> deviceType, isDimmable |-> isDimmable, isAcInfinDev |-> FALSE,
     voltage |-> value, dutyCycle |-> value]

Switches ==
    [name \in {"humidifier", "dehumidifier", "heater"} |->
        Managed(IF name = "humidifier" THEN "Humidifier"
                ELSE IF name = "dehumidifier" THEN "Dehumidifier" ELSE "Heater", FALSE, None)]

\* light, exhaust and intake with the control values given
Dimmers(light, exhaust, intake) ==
    [name \in {"light", "exhaust", "intake"} |->
        IF name = "light" THEN Managed("Light", TRUE, light)
        ELSE IF name = "exhaust" THEN Managed("Exhaust", TRUE, exhaust)
        ELSE Managed("Intake", TRUE, intake)]

\* the device maps the loop is run with: none (the manager as constructed),
\* the switches alone, and all six: with the light far from its target,
\* with the light 5 below the LateVeg target, and with the light or the
\* exhaust as constructed (Device.__init__, lines 35-36: no control value
\* yet)
ManagedDevices ==
    {<<>>, Switches, Dimmers(20, 50, 50) @@ Switches, Dimmers(75, 50, 50) @@ Switches,
     Dimmers(None, 50, 50) @@ Switches, Dimmers(20, None, 50) @@ Switches}

\* the readings the loop is run with: cold and dry, warm and humid, near the
\* targets, no humidity reading, and the store as constructed
LoopReadings ==
    {Reading(200, 500, 100, <<None, None>>, <<220, 500>>, <<100, 700>>),
     Reading(290, 700, 100, <<None, None>>, <<220, 500>>, <<100, 700>>),
     Reading(250, 580, 100, <<None, None>>, <<220, 500>>, <<100, 700>>),
     Reading(250, None, 100, <<None, None>>, <<220, 500>>, <<100, 700>>),
     Reading(None, None, None, <<None, None>>, <<None, None>>, <<None, None>>)}

\* the plantStage settings the loop is run with
LoopStages == {"", "Mid-Flower"}

Abs(x) == IF x < 0 THEN 0 - x ELSE x

\* lines 567-570; readings and targets in tenths
current_temp(sensor_data) == Or(sensor_data.tent_temp, sensor_data.temperature)
current_hum(sensor_data) == Or(sensor_data.tent_hum, sensor_data.humidity)

NeedsHumidity_nodeadband(hum_diff) == hum_diff < 0

\* hum_diff < -5, line 615
NeedsHumidity(hum_diff) == hum_diff < 0 - 50

\* hum_diff > 5, line 627
TooHumid(hum_diff) == hum_diff > 50

NeedsHeating_nodeadband(temp_diff) == temp_diff > 0

\* temp_diff > 3, line 643
NeedsHeating(temp_diff) == temp_diff > 30

\* temp_diff < -1, line 649
WarmEnough(temp_diff) == temp_diff < 0 - 10

Skip == [kind |-> "skip"]
Raise == [kind |-> "raise"]
Call(name, op) == [kind |-> "call", name |-> name, op |-> op]

OverDeadband_inclusive(current, target) ==
    IF current = None THEN Raise
    ELSE IF Abs(current * 10 - Or(target, 0)) >= 50 THEN [kind |-> "over"] ELSE Skip

\* abs(current - target) > 5 of a dimmable device, lines 577 and 590: a
\* control value of None raises, outside the try
OverDeadband(current, target) ==
    IF current = None THEN Raise
    ELSE IF Abs(current * 10 - Or(target, 0)) > 50 THEN [kind |-> "over"] ELSE Skip

\* the i-th block of _execute_direct_control: what it does up to its await.
\* Device has no set_duty_cycle, so the exhaust and intake blocks compare
\* and call nothing.
DirectControlBlock(u, i) ==
    LET has(name) == name \in DOMAIN u.devices
        sensor_data == u.sensor_data
        hum == current_hum(sensor_data)
        temp == current_temp(sensor_data)
        hum_diff == hum - u.targets.humidity_target
        temp_diff == u.targets.temperature_target - temp
    IN  CASE i = 1 ->
                IF has("light") /\ u.targets.light_intensity # None
                THEN LET over == OverDeadband(u.devices["light"].voltage, u.targets.light_intensity)
                     IN  IF over.kind = "over" THEN Call("light", "turn_on") ELSE over
                ELSE Skip
          [] i = 2 ->
                IF has("exhaust") /\ u.targets.exhaust_speed # None
                THEN LET over == OverDeadband(u.devices["exhaust"].dutyCycle, u.targets.exhaust_speed)
                     IN  IF over.kind = "over" THEN Skip ELSE over
                ELSE Skip
          [] i = 3 ->
                IF has("intake") /\ u.targets.intake_speed # None
                THEN LET over == OverDeadband(u.devices["intake"].dutyCycle, u.targets.intake_speed)
                     IN  IF over.kind = "over" THEN Skip ELSE over
                ELSE Skip
          [] i = 4 ->
                IF hum = None THEN Raise
                ELSE IF NeedsHumidity(hum_diff) /\ has("humidifier") THEN Call("humidifier", "turn_on")
                ELSE IF ~NeedsHumidity(hum_diff) /\ TooHumid(hum_diff) /\ has("dehumidifier")
                     THEN Call("dehumidifier", "turn_on")
                ELSE Skip
          [] i = 5 ->
                IF NeedsHumidity(hum_diff) /\ has("dehumidifier") THEN Call("dehumidifier", "turn_off")
                ELSE IF ~NeedsHumidity(hum_diff) /\ TooHumid(hum_diff) /\ has("humidifier")
                     THEN Call("humidifier", "turn_off")
                ELSE Skip
          [] OTHER ->
                IF ~has("heater") THEN Skip
                ELSE IF temp = None THEN Raise
                ELSE IF NeedsHeating(temp_diff) THEN Call("heater", "turn_on")
                ELSE IF WarmEnough(temp_diff) THEN Call("heater", "turn_off")
                ELSE Skip

\* _execute_control_cycle from the i-th block of _execute_direct_control on,
\* up to the loop task's next await: a device call (the command is recorded
\* as issued), the backoff sleep after an exception (cycle_error: the loop
\* logged it), or the sleep after the cycle's end (_learn_from_cycle,
\* last_control_time)
LoopExcept_terminates == "ended"

\* except Exception in _control_loop, lines 155-157: log, then sleep 30 s
LoopExcept == "backoff"

RECURSIVE _execute_direct_control(_, _)
_execute_direct_control(u, i) ==
    IF i > 6
    THEN _learn_from_cycle([u EXCEPT !.task = "sleep", !.pc = 0, !.last_control_time = u.now])
    ELSE LET block == DirectControlBlock(u, i)
         IN  IF block.kind = "raise" THEN [u EXCEPT !.task = LoopExcept, !.pc = 0, !.cycle_error = TRUE]
             ELSE IF block.kind = "call"
                  THEN [u EXCEPT !.task = "await", !.pc = i,
                                 !.commands = Append(@, [name |-> block.name, op |-> block.op])]
             ELSE _execute_direct_control(u, i + 1)

TaskFinished_any(task) == TRUE

\* a task that no longer runs: never created, left its while, or cancelled
TaskFinished(task) == task \in {"none", "ended", "cancelled"}

AlreadyActive_never(u) == FALSE

\* if self.control_active: return, lines 113-115
AlreadyActive(u) == u.control_active

\* UltraInstinctManager.start_control: returns at once when control is
\* active; otherwise a new loop task replaces the one control_task referred
\* to, and a replaced task that has not ended is kept as ui.old (one at a
\* time)
LoopStart ==
    /\ ui.old = "none"
    /\ IF AlreadyActive(ui) THEN ui' = ui
       ELSE ui' = [ui EXCEPT !.control_active = TRUE, !.task = "ready", !.pc = 0,
                             !.old = IF TaskFinished(ui.task) THEN "none" ELSE ui.task,
                             !.stopped = FALSE]

\* _control_loop at its while, lines 151-157, and _execute_control_cycle up
\* to the first await.  A current_vpd of None raises in _calculate_targets.
CycleBegin(sensor_data, stored) ==
    /\ ui.task = "ready"
    /\ ui.cycles < MaxLoopCycles
    /\ IF ~ui.control_active THEN ui' = [ui EXCEPT !.task = "ended"]
       ELSE LET sensor_history == _update_sensor_history(ui.sensor_history, sensor_data, ui.now)
                u == [ui EXCEPT !.sensor_history = sensor_history, !.sensor_data = sensor_data,
                                !.cycles = @ + 1, !.commands = <<>>, !.raised = {},
                                !.cycle_error = FALSE]
            IN  IF sensor_data.vpd = None THEN ui' = [u EXCEPT !.task = LoopExcept, !.cycle_error = TRUE]
                ELSE LET calc == _calculate_targets(sensor_history, sensor_data, stored)
                     IN  ui' = _execute_direct_control(
                                    [u EXCEPT !.targets = calc.targets,
                                              !.predictive_adjustments = calc.predictive_adjustments,
                                              !.plant_stage = stored], 1)

\* the awaited device call returns or raises; the block's except logs the
\* exception and the cycle goes on with the next block
DeviceReturn(raises) ==
    /\ ui.task = "await"
    /\ LET name == ui.commands[Len(ui.commands)].name
       IN  ui' = _execute_direct_control(
                    [ui EXCEPT !.raised = IF raises THEN @ \cup {name} ELSE @], ui.pc + 1)

\* asyncio.sleep(self.update_interval), line 153, or asyncio.sleep(30), line
\* 157, is over
Wake ==
    /\ ui.task \in {"sleep", "backoff"}
    /\ ui' = [ui EXCEPT !.task = "ready", !.now = @ + update_interval]

\* UltraInstinctManager.stop_control up to its await: a task that has ended
\* is awaited without suspending
stop_control_begin(u) ==
    IF TaskFinished(u.task)
    THEN [u EXCEPT !.control_active = FALSE, !.stopped = TRUE]
    ELSE [u EXCEPT !.control_active = FALSE, !.task = "cancelling", !.stopper = "waiting"]

LoopStop ==
    /\ ui.stopper = "none" /\ ui.estop = 0
    /\ ui' = stop_control_begin(ui)

\* the loop task is resumed with the CancelledError that cancel() scheduled:
\* no except Exception on its way catches it, the task ends
TaskCancelled ==
    /\ ui.task = "cancelling" \/ ui.old = "cancelling"
    /\ ui' = [ui EXCEPT !.task = IF ui.old = "cancelling" THEN @ ELSE "cancelled",
                        !.old = IF ui.old = "cancelling" THEN "cancelled" ELSE @]

\* the task stop_control cancelled and awaits
Awaited(u) == IF u.old # "none" THEN u.old ELSE u.task

\* stop_control returns once the awaited task has ended
StopReturn ==
    /\ ui.stopper = "waiting"
    /\ TaskFinished(Awaited(ui))
    /\ ui' = [ui EXCEPT !.stopper = "none", !.old = "none",
                        !.stopped = ~ui.control_active]

\* Device.turn_off of the managed devices from the i-th on, up to the first
\* hardware call emergency_stop awaits; after the last device, stop_control
RECURSIVE TurnOffFrom(_, _)
TurnOffFrom(u, i) ==
    IF i > Len(DeviceOrder)
    THEN stop_control_begin([u EXCEPT !.estop = 0, !.off_done = TRUE, !.estop_at = 0])
    ELSE LET name == DeviceOrder[i]
         IN  IF name \in DOMAIN u.devices /\ TurnOffCalls(u.devices[name])
             THEN [u EXCEPT !.estop = i, !.off_calls = @ \cup {name}]
             ELSE TurnOffFrom(u, i + 1)

\* UltraInstinctManager.emergency_stop up to its first await (estop_at:
\* the cycle that is at a device call when emergency_stop is called)
emergency_stop ==
    /\ ui.stopper = "none" /\ ui.estop = 0
    /\ ui' = TurnOffFrom([ui EXCEPT !.off_calls = {}, !.off_done = FALSE,
                                    !.estop_at = IF ui.task = "await" THEN ui.cycles ELSE 0], 1)

\* the awaited turn_off returns (Device.turn_off logs what its call raised)
TurnOffReturn ==
    /\ ui.estop \in 1..Len(DeviceOrder)
    /\ ui' = TurnOffFrom(ui, ui.estop + 1)

LoopInit ==
    /\ \E devices \in ManagedDevices :
        ui = [control_active |-> FALSE, sensor_history |-> <<>>, targets |-> NoTargets,
              predictive_adjustments |-> [temp_adjustment |-> 0, hum_adjustment |-> 0,
                                          exhaust_pre_adjust |-> 0, light_pre_adjust |-> 0],
              control_history |-> <<>>, ambient_tent_inertia |-> 50,
              last_control_time |-> None, plant_stage |-> "", now |-> 0, cycles |-> 0,
              devices |-> devices, task |-> "none", old |-> "none", pc |-> 0,
              sensor_data |-> None, commands |-> <<>>, raised |-> {},
              stopper |-> "none", stopped |-> FALSE, estop |-> 0, off_calls |-> {},
              off_done |-> FALSE, cycle_error |-> FALSE, estop_at |-> 0]
    /\ dev = Parked /\ tasks = Parked /\ hwOnAges = Parked /\ hist = Parked
    /\ fn = Parked /\ reg = Parked

LoopNext ==
    \/ LoopStart /\ UNCHANGED <<devVars, fn, reg>>
    \/ (\E sensor_data \in LoopReadings, stored \in LoopStages :
            CycleBegin(sensor_data, stored)) /\ UNCHANGED <<devVars, fn, reg>>
    \/ (\E raises \in BOOLEAN : DeviceReturn(raises)) /\ UNCHANGED <<devVars, fn, reg>>
    \/ Wake /\ UNCHANGED <<devVars, fn, reg>>
    \/ LoopStop /\ UNCHANGED <<devVars, fn, reg>>
    \/ TaskCancelled /\ UNCHANGED <<devVars, fn, reg>>
    \/ StopReturn /\ UNCHANGED <<devVars, fn, reg>>
    \/ emergency_stop /\ UNCHANGED <<devVars, fn, reg>>
    \/ TurnOffReturn /\ UNCHANGED <<devVars, fn, reg>>

SpecLoop == LoopInit /\ [][LoopNext]_vars

\* the event loop resumes the loop task when its sleep is over and runs it
SpecLoopLive ==
    /\ SpecLoop
    /\ WF_vars(Wake /\ UNCHANGED <<devVars, fn, reg>>)
    /\ WF_vars((\E sensor_data \in LoopReadings, stored \in LoopStages :
                    CycleBegin(sensor_data, stored)) /\ UNCHANGED <<devVars, fn, reg>>)

\* the command op was issued to the device name in the latest cycle
Commanded(name, op) ==
    \E k \in 1..Len(ui.commands) : ui.commands[k] = [name |-> name, op |-> op]

\* current humidity minus target of the latest cycle, in tenths
HumDiff == current_hum(ui.sensor_data) - ui.targets.humidity_target

\* C11: in a control cycle the humidifier is turned on and the dehumidifier
\* turned off only when the current humidity is more than 5 below the
\* target, the dehumidifier is turned on and the humidifier turned off only
\* when it is more than 5 above; within +/-5 neither gets a command, and
\* the two are never both commanded on in one cycle.
C11_HumidityHysteresis ==
    /\ Commanded("humidifier", "turn_on") \/ Commanded("dehumidifier", "turn_off")
            => current_hum(ui.sensor_data) # None /\ HumDiff < 0 - 50
    /\ Commanded("dehumidifier", "turn_on") \/ Commanded("humidifier", "turn_off")
            => current_hum(ui.sensor_data) # None /\ HumDiff > 50
    /\ ~(Commanded("humidifier", "turn_on") /\ Commanded("dehumidifier", "turn_on"))

C11_Witness ==
    /\ ui # Parked /\ ui.task = "sleep"
    /\ Commanded("humidifier", "turn_on") /\ Commanded("dehumidifier", "turn_off")
    /\ HumDiff < 0 - 50

\* C15: when stop_control returns, the loop task it cancelled has ended;
\* from then on, until control is started again, no control cycle runs and
\* no cycle issues a command.
C15_NoCycleAfterStop ==
    /\ [][ui.stopper = "waiting" /\ ui'.stopper = "none"
            => Awaited(ui) \in {"none", "ended", "cancelled"}]_vars
    /\ [](ui.stopped => ui.task \in {"none", "ended", "cancelled"} /\ ui.old = "none")
    /\ [][ui.stopped => /\ ui'.commands = ui.commands
                        /\ ui'.cycles = ui.cycles
                        /\ ui'.sensor_history = ui.sensor_history]_vars

\* stop_control has returned after cancelling a cycle at a device call
C15_Witness ==
    /\ ui # Parked /\ ui.stopped /\ ui.stopper = "none"
    /\ ui.task = "cancelled" /\ ui.pc > 0 /\ Len(ui.commands) > 0

\* C16: while control is active, an exception raised in a control cycle
\* does not end the loop: it is logged, the loop backs off, and another
\* cycle starts (unless control is stopped in between).
C16_LoopSurvivesException ==
    \A n \in 1..(MaxLoopCycles - 1) :
        (ui.cycle_error /\ ui.control_active /\ ui.cycles = n)
            ~> (ui.cycles > n \/ ~ui.control_active)

\* a second cycle has started after the first one raised and the loop
\* backed off
C16_Witness ==
    /\ ui # Parked /\ ui.control_active /\ ui.cycles = 2 /\ ui.task = "sleep"
    /\ Len(ui.sensor_history) = 2 /\ ui.sensor_history[1].vpd = None
    /\ ui.control_history # <<>>

\* the blocks of _execute_direct_control that have a command to issue in
\* the latest cycle
DueBlocks ==
    {i \in 1..6 : /\ i \in {4, 5} => current_hum(ui.sensor_data) # None
                  /\ i = 6 /\ "heater" \in DOMAIN ui.devices => current_temp(ui.sensor_data) # None
                  /\ DirectControlBlock(ui, i).kind = "call"}

\* C17: once a control cycle that reached its device handling with a
\* temperature and a humidity reading is over, every command it had to issue was attempted, whatever failed at another
\* device (a call that raised, a control value that is unavailable), and
\* no command was attempted twice.
C17_FailureDoesNotStopCycle ==
    (/\ ui.task \in {"sleep", "backoff"} /\ ui.cycles > 0 /\ ui.sensor_data.vpd # None
     /\ current_hum(ui.sensor_data) # None /\ current_temp(ui.sensor_data) # None)
        => /\ \A i \in DueBlocks :
                Commanded(DirectControlBlock(ui, i).name, DirectControlBlock(ui, i).op)
           /\ \A j, k \in 1..Len(ui.commands) : ui.commands[j] = ui.commands[k] => j = k

\* C20: when emergency_stop is through its loop and goes on to cancel the
\* control loop, every managed device has had a turn-off call made to its
\* hardware.
C20_EmergencyStopTurnsOffAll ==
    ui.off_done => ui.off_calls = DOMAIN ui.devices

----------------------------------------------------------------------------
(* The two histories over a long run of the control loop *)

RingCycles == 102

RingWarmup == 9

\* the reading of the k-th cycle: the store as constructed (vpd.current
\* None) for the first warmup cycles, then a tent that warms and cools over
\* seven cycles
RingReading(k, warmup) ==
    IF k < warmup
    THEN Reading(None, None, None, <<None, None>>, <<None, None>>, <<None, None>>)
    ELSE Reading(None, 600, 100, <<240 + (k % 7), None>>, <<220, 500>>, <<100, 700>>)

RingCycle ==
    /\ ui.cycles < RingCycles
    /\ \E stored \in StoredStages : ControlCycle(RingReading(ui.cycles, ui.warmup), stored)

\* the manager as constructed; warmup: for how many cycles the VPD is not
\* calculated yet
RingInit ==
    /\ \E warmup \in {0, RingWarmup} : ui = [warmup |-> warmup] @@ NewManager
    /\ dev = Parked /\ tasks = Parked /\ hwOnAges = Parked /\ hist = Parked
    /\ fn = Parked /\ reg = Parked

RingNext ==
    \/ start_control /\ UNCHANGED <<devVars, fn, reg>>
    \/ stop_control /\ UNCHANGED <<devVars, fn, reg>>
    \/ RingCycle /\ UNCHANGED <<devVars, fn, reg>>
    \/ get_control_status /\ UNCHANGED <<devVars, fn, reg>>

SpecRing == RingInit /\ [][RingNext]_vars

\* C19: the sensor history never holds more than gradient_history_size
\* entries and the control history never more than 100; a cycle that finds
\* a history full drops its oldest entry, keeps the others in their order
\* and puts the new entry last.
C19_HistoriesBounded ==
    /\ [](Len(ui.sensor_history) <= gradient_history_size /\ Len(ui.control_history) <= 100)
    /\ [][ui'.cycles = ui.cycles + 1 /\ Len(ui.sensor_history) = gradient_history_size
            => /\ Len(ui'.sensor_history) = gradient_history_size
               /\ SubSeq(ui'.sensor_history, 1, gradient_history_size - 1) = Tail(ui.sensor_history)
               /\ ui'.sensor_history[gradient_history_size].timestamp = ui.now]_vars
    /\ [][ui'.cycles = ui.cycles + 1 /\ Len(ui.control_history) = 100
            => /\ Len(ui'.control_history) = 100
               /\ SubSeq(ui'.control_history, 1, 99) = Tail(ui.control_history)]_vars

\* both histories are full and have dropped entries
C19_Witness ==
    /\ ui # Parked /\ ui.cycles > 100
    /\ Len(ui.sensor_history) = gradient_history_size
    /\ ui.sensor_history[1].timestamp > 0
    /\ Len(ui.control_history) = 100

----------------------------------------------------------------------------
(* Further properties of the actuator's handlers *)

\* the actuator state the handlers write: control value, bounds, running
\* flag and work mode
MutableState(d) ==
    <<d.voltage, d.dutyCycle, d.minVoltage, d.maxVoltage, d.minDuty, d.maxDuty,
      d.isRunning, d.inWorkMode>>

\* C21: while an operation on the actuator is suspended in its hardware
\* call (and stays suspended over the step), no other operation changes the
\* actuator's control value, bounds, running flag or work mode.
C21_SerializedWrites ==
    [][InFlight("on") \cup InFlight("off") # {} /\ tasks' = tasks
          => MutableState(dev') = MutableState(dev)]_vars

\* the reading checkForControlValue converts: the value held for the duty /
\* intensity entity, lines 652, 688 and 696
StoredReading(d) ==
    convert_to_int(d.fbValue,
                   IF d.fb = "option" /\ d.deviceType = "Light" THEN TRUE ELSE d.isAcInfinDev)

\* C23: with the bounds inactive, feedback ingestion that derives the
\* control value from a valid reading v in 0..100 stores v unclamped, also
\* when the min/max fields hold the inactive defaults 0/0.
C23_InactiveBoundsNoClamp ==
    [][(\E raw \in RawValues : FeedbackUpdate(raw))
         /\ ~dev.is_minmax_active /\ ~dev.in_active_control /\ dev.isDimmable
         /\ dev.deviceType \in {"Light"} \cup DutyTypes
         /\ StoredReading(dev) # None /\ StoredReading(dev) >= 0 /\ StoredReading(dev) <= 100
          => ControlValue(dev') = StoredReading(dev)]_vars

\* C24: MinMaxControlDisabled gives an Exhaust / Intake / Ventilation
\* actuator the override's minDuty / maxDuty when a device-specific
\* override is active, and the class defaults 0 and 100 otherwise.
C24_DisabledResetsFanBounds ==
    [][\A store \in StoreSettings(dev.deviceType) :
         on_minmax_control_disabled(store) /\ dev.deviceType \in FanTypes
          => IF store.present /\ store.active
             THEN dev'.minDuty = store.min /\ dev'.maxDuty = store.max
             ELSE dev'.minDuty = 0 /\ dev'.maxDuty = 100]_vars

\* C25: a WorkMode signal, enter or exit, leaves a dimmable Light whose sun
\* phase is active as it is: voltage and work-mode state unchanged, no
\* turn-on sent.
C25_SunPhaseIgnoresWorkMode ==
    [][\A workmode \in BOOLEAN :
         WorkMode(workmode) /\ dev.deviceType = "Light" /\ dev.isDimmable
         /\ dev.sunPhaseActive /\ dev.islightON # "off"
          => /\ dev'.voltage = dev.voltage
             /\ dev'.inWorkMode = dev.inWorkMode
             /\ dev'.pendingWorkMode = dev.pendingWorkMode
             /\ tasks' = tasks /\ hwOnAges' = hwOnAges]_vars

----------------------------------------------------------------------------
(* WorkMode over the other device classes: switched devices of every kind, *)
(* lights whose main light is off, lights with their own scheduling        *)

WorkConfigs ==
    {Cfg("Light", FALSE, FALSE, FALSE, "none"), Cfg("Pump", FALSE, FALSE, FALSE, "none"),
     Cfg("Sensor", FALSE, FALSE, FALSE, "none"), Cfg("Heater", FALSE, FALSE, FALSE, "none"),
     Cfg("Humidifier", FALSE, FALSE, FALSE, "none"),
     Cfg("Light", TRUE, FALSE, FALSE, "sensor"),
     Cfg("LightFarRed", TRUE, FALSE, FALSE, "none"), Cfg("LightUV", TRUE, FALSE, FALSE, "none")}

\* islightON of the light classes (LightUV.py, lines 93 and 188); Device
\* itself has no such attribute
LightStates(deviceType) ==
    IF deviceType \in LightTypes THEN {"on", "off"} ELSE {"absent"}

WorkInit ==
    /\ \E c \in WorkConfigs, sw \in {"on", "off"} :
         \E store \in StoreSettings(c.deviceType), light \in LightStates(c.deviceType) :
              dev = deviceInit([NewDevice(c, sw, IF c.fb = "none" THEN RawNone ELSE Num(55))
                                  EXCEPT !.islightON = light], store)
    /\ tasks = [i \in 1..MaxTasks |-> Idle]
    /\ hwOnAges = <<>>
    /\ hist = [preRun |-> FALSE]
    /\ fn = Parked /\ reg = Parked /\ ui = Parked

SpecWork == WorkInit /\ [][Next]_vars

\* the kinds WorkMode leaves alone when they are not dimmable
Unaffected == {"Light", "Pump", "Sensor"}

\* C22: WorkMode leaves a non-dimmable Light, Pump or Sensor alone (no
\* hardware call, running flag unchanged); every other non-dimmable kind
\* gets a turn-off on enter and, on exit, a turn-on if and only if it was
\* running before entry.
C22_NonDimmableWorkMode ==
    /\ [][\A workmode \in BOOLEAN :
            WorkMode(workmode) /\ ~dev.isDimmable /\ dev.deviceType \in Unaffected
             => tasks' = tasks /\ hwOnAges' = hwOnAges /\ dev'.isRunning = dev.isRunning]_vars
    /\ [][WorkMode(TRUE) /\ ~dev.isDimmable /\ dev.deviceType \notin Unaffected
             => \E i \in 1..MaxTasks : tasks[i].st = "idle" /\ tasks'[i].st = "off"]_vars
    /\ [][WorkMode(FALSE) /\ dev.inWorkMode /\ ~dev.isDimmable
          /\ dev.deviceType \notin Unaffected /\ is_device_online(dev) /\ ~RateLimited(dev)
          /\ InFlight("on") = {} /\ InFlight("off") = {}
             => (hist.preRun <=> \E i \in 1..MaxTasks : tasks[i].st = "idle" /\ tasks'[i].st = "on")]_vars

\* C26: a WorkMode signal that arrives while the light is off is stored as
\* pendingWorkMode and changes nothing else; an actuator with its own
\* scheduling drops it and keeps every field.
C26_LightOffStoresPending ==
    [][\A workmode \in BOOLEAN :
         WorkMode(workmode) /\ dev.islightON = "off"
          => /\ tasks' = tasks /\ hwOnAges' = hwOnAges
             /\ dev' = IF dev.deviceType \in SpecialLightTypes THEN dev
                       ELSE [dev EXCEPT !.pendingWorkMode = IF workmode THEN "True" ELSE "False"]]_vars

\* a light that is off holds the enter signal it was sent and is not in
\* work mode
C26_Witness ==
    /\ dev # Parked /\ dev.deviceType = "Light" /\ dev.isDimmable /\ dev.islightON = "off"
    /\ dev.pendingWorkMode = "True" /\ ~dev.inWorkMode

----------------------------------------------------------------------------
(* Further properties of the target calculation (targets in tenths) *)

\* humidity 40..85, exhaust 10..100, light 0..100 in the stored targets
TargetsInRange ==
    /\ ui.targets.humidity_target >= 400 /\ ui.targets.humidity_target <= 850
    /\ ui.targets.exhaust_speed >= 100 /\ ui.targets.exhaust_speed <= 1000
    /\ ui.targets.light_intensity >= 0 /\ ui.targets.light_intensity <= 1000

\* C27 as stated: after a successful target calculation the targets are in
\* their ranges and intake_speed is exactly 85% of exhaust_speed.
C27_IntakeExactly85 ==
    ui.targets # NoTargets
        => /\ TargetsInRange
           /\ 100 * ui.targets.intake_speed = 85 * ui.targets.exhaust_speed

\* C27, amended: after a successful target calculation the targets are in
\* their ranges, and intake_speed is 85% of exhaust_speed up to the
\* rounding to one decimal both are stored with (less than 0.1 apart), and
\* not above exhaust_speed.
C27_TargetsBounded ==
    ui.targets # NoTargets
        => /\ TargetsInRange
           /\ 100 * ui.targets.intake_speed - 85 * ui.targets.exhaust_speed < 100
           /\ 85 * ui.targets.exhaust_speed - 100 * ui.targets.intake_speed < 100
           /\ ui.targets.intake_speed <= ui.targets.exhaust_speed

\* targets calculated with a prediction at work: the exhaust pre-adjusted
\* and held at its upper bound
C27_Witness ==
    /\ ui # Parked /\ ui.targets # NoTargets
    /\ ui.predictive_adjustments.exhaust_pre_adjust > 0
    /\ ui.targets.exhaust_speed = 1000 /\ ui.targets.intake_speed = 850

\* C30: a control cycle completes whatever readings are missing: targets
\* are stored and the cycle is timestamped, and with fewer than two
\* samples buffered the targets are the baseline ones (stage midpoint,
\* humidity optimum, stage exhaust and light) with all-zero predictions.
C30_AbsentDataBaseline ==
    [][\A sensor_data \in SensorReadings, stored \in StoredStages :
         _execute_control_cycle(sensor_data, stored)
          => /\ ui'.last_control_time = ui.now
             /\ ui'.targets # NoTargets
             /\ ui'.plant_stage = stored
             /\ Len(ui'.sensor_history) < 2
                  => /\ ui'.predictive_adjustments.temp_predicted_change = 0
                     /\ ui'.predictive_adjustments.hum_predicted_change = 0
                     /\ ui'.predictive_adjustments.exhaust_pre_adjust = 0
                     /\ ui'.targets.temperature_target
                          = 5 * (TempRange(stored).minTemp + TempRange(stored).maxTemp)
                     /\ ui'.targets.humidity_target = 600
                     /\ ui'.targets.light_intensity
                          = 10 * _calculate_base_light_intensity(PlantStage(stored))]_vars

\* the predicted change as the claim has it: the share of the ambient
\* change that transfers is scaled by the ambient-enclosure inertia (in
\* hundredths)
ClaimedChange(gradient, trend, transfer, inertia) ==
    LET outside_influence == TruncDiv(gradient * outside_ambient_inertia, 10)
        ambient_change == TruncDiv(outside_influence * prediction_window_minutes, 60)
    IN  TruncDiv(TruncDiv(ambient_change * transfer, 10) * inertia, 100)
            + TruncDiv(trend * prediction_window_minutes, 60)

\* C28: the predicted temperature and humidity changes a cycle stores are
\* (outside->ambient gradient x outside-ambient inertia x horizon) x 0.30
\* (humidity 0.40) x ambient-enclosure inertia + trend x horizon, with the
\* inertia the manager holds when the cycle starts.
C28_PredictionUsesInertia ==
    [][ui'.cycles = ui.cycles + 1 /\ ui'.last_control_time = ui.now
          => LET gradients == _calculate_gradients(ui'.sensor_history)
             IN  /\ ui'.predictive_adjustments.temp_predicted_change
                      = Round2(ClaimedChange(gradients.outside_to_ambient_temp,
                                             gradients.temp_trend, 3, ui.ambient_tent_inertia))
                 /\ ui'.predictive_adjustments.hum_predicted_change
                      = Round2(ClaimedChange(gradients.outside_to_ambient_hum,
                                             gradients.hum_trend, 4, ui.ambient_tent_inertia))]_vars

\* C29: the ambient-enclosure inertia (in hundredths) stays within 30..80
\* and changes only in a cycle that leaves at least 10 control-history
\* entries and 10 sensor samples: by +5 (at most 80) when the mean of the
\* 10 latest ambient->tent gradients is above 2, by -5 (at least 30) when it
\* is below 0.5, and not at all otherwise.
C29_InertiaLearning ==
    /\ [](ui.ambient_tent_inertia >= 30 /\ ui.ambient_tent_inertia <= 80)
    /\ [][ui'.ambient_tent_inertia # ui.ambient_tent_inertia
            => /\ Len(ui'.control_history) >= 10 /\ Len(ui'.sensor_history) >= 10
               /\ \/ /\ RecentMean(ui'.control_history) > 2000
                     /\ ui'.ambient_tent_inertia = Min2(80, ui.ambient_tent_inertia + 5)
                  \/ /\ RecentMean(ui'.control_history) < 500
                     /\ ui'.ambient_tent_inertia = Max2(30, ui.ambient_tent_inertia - 5)]_vars

----------------------------------------------------------------------------
(* Further properties of the control loop's device handling *)

\* |current control value - target| of a dimmable device in the latest
\* cycle, in tenths
ControlGap(name, field, target) ==
    Abs(ui.devices[name][field] * 10 - Or(ui.targets[target], 0))

\* C31: in a control cycle a command goes to the light, the exhaust or the
\* intake only if the device's control value differs from its target by
\* more than 5; with a difference of 5 or less the device gets no command.
C31_DeadbandGuardsCommands ==
    /\ (\E op \in {"turn_on", "turn_off"} : Commanded("light", op))
            => ui.devices["light"].voltage # None /\ ControlGap("light", "voltage", "light_intensity") > 50
    /\ (\E op \in {"turn_on", "turn_off"} : Commanded("exhaust", op))
            => ui.devices["exhaust"].dutyCycle # None /\ ControlGap("exhaust", "dutyCycle", "exhaust_speed") > 50
    /\ (\E op \in {"turn_on", "turn_off"} : Commanded("intake", op))
            => ui.devices["intake"].dutyCycle # None /\ ControlGap("intake", "dutyCycle", "intake_speed") > 50

\* a cycle is over in which the light was exactly 5 from its target and got
\* no command, while another device did
C31_Witness ==
    /\ ui # Parked /\ ui.task = "sleep" /\ ui.cycles > 0
    /\ "light" \in DOMAIN ui.devices /\ ui.devices["light"].voltage # None
    /\ ControlGap("light", "voltage", "light_intensity") = 50
    /\ ~Commanded("light", "turn_on") /\ Len(ui.commands) > 0

\* target minus current temperature of the latest cycle, in tenths
TempDiff == ui.targets.temperature_target - current_temp(ui.sensor_data)

\* C32: in a control cycle the heater is turned on only when the target
\* exceeds the current temperature by more than 3, turned off only when the
\* current temperature exceeds the target by more than 1, and gets no
\* command in between.
C32_HeaterHysteresis ==
    /\ Commanded("heater", "turn_on") => current_temp(ui.sensor_data) # None /\ TempDiff > 30
    /\ Commanded("heater", "turn_off") => current_temp(ui.sensor_data) # None /\ TempDiff < 0 - 10
    /\ ~(Commanded("heater", "turn_on") /\ Commanded("heater", "turn_off"))

\* a cycle is over that turned the heater on
C32_Witness ==
    /\ ui # Parked /\ ui.task = "sleep" /\ ui.cycles > 0
    /\ Commanded("heater", "turn_on") /\ TempDiff > 30


----------------------------------------------------------------------------
(* The predictive factors over gradients of either sign *)

\* outside->ambient gradients and tent trends, in thousandths per hour:
\* falling, flat and rising, with trends that put the predicted change on
\* and just beyond +/-0.5
FactorGradients == {0 - 144000, 0 - 24000, 0, 24000, 144000}
FactorTrends == {0 - 60000, 0 - 12000, 0 - 6012, 0 - 6000, 0, 6000, 6012, 12000, 36000, 60000}

\* the latest sample: all three temperatures known, or no outside reading
FactorReadings ==
    {Reading(None, 600, 100, <<240, None>>, <<220, 500>>, <<100, 700>>),
     Reading(240, 600, 100, <<None, None>>, <<220, 500>>, <<None, None>>)}

FactorInit ==
    /\ \E sensor_data \in FactorReadings, gradient \in FactorGradients, trend \in FactorTrends :
          fn = [f |-> "none", sensor_data |-> sensor_data,
                gradients |-> [outside_to_ambient_temp |-> gradient,
                               outside_to_ambient_hum |-> 0 - gradient,
                               ambient_to_tent_temp |-> 0, ambient_to_tent_hum |-> 0,
                               temp_trend |-> trend, hum_trend |-> 0],
                result |-> None]
    /\ dev = Parked /\ tasks = Parked /\ hwOnAges = Parked /\ hist = Parked
    /\ reg = Parked /\ ui = Parked

\* _calculate_targets, lines 396-397
CallFactors ==
    /\ fn.f = "none"
    /\ fn' = [fn EXCEPT !.f = "_calculate_predictive_factors",
                        !.result = _calculate_predictive_factors(fn.sensor_data, fn.gradients)]
    /\ UNCHANGED <<devVars, reg, ui>>

FactorNext == CallFactors

SpecFactor == FactorInit /\ [][FactorNext]_vars

\* C33: the exhaust pre-adjustment lies in [-10, +15] (thousandths:
\* -10000..15000); for a predicted temperature change d > 0.5 it is
\* min(15, 5 d), for d < -0.5 it is max(-10, 3 d), otherwise 0, so it never
\* has the opposite sign of d.
C33_PreAdjustClamped ==
    fn.f = "_calculate_predictive_factors"
    => LET d == fn.result.temp_predicted_change
           pre == fn.result.exhaust_pre_adjust
       IN  /\ pre >= 0 - 10000 /\ pre <= 15000
           /\ d > 500 => pre = (IF 5 * d < 15000 THEN 5 * d ELSE 15000)
           /\ d < 0 - 500 => pre = (IF 3 * d > 0 - 10000 THEN 3 * d ELSE 0 - 10000)
           /\ d >= 0 - 500 /\ d <= 500 => pre = 0
           /\ ~(pre > 0 /\ d < 0) /\ ~(pre < 0 /\ d > 0)

\* a predicted rise large enough for the cap to apply
C33_Witness ==
    /\ fn # Parked /\ fn.f = "_calculate_predictive_factors"
    /\ fn.result.temp_predicted_change > 3000 /\ fn.result.exhaust_pre_adjust = 15000

----------------------------------------------------------------------------
(* Device.initialize_duty_cycle over bounds, steps and platform flags *)

calc_middle_mean(min_val, max_val, steps_val) == (min_val + max_val) \div 2

\* calc_middle, lines 406-411 (// of a positive divisor is \div)
calc_middle(min_val, max_val, steps_val) ==
    IF steps_val <= 0 THEN (min_val + max_val) \div 2
    ELSE LET range_mid == (max_val - min_val) \div 2
             steps_in_range == range_mid \div steps_val
         IN  min_val + steps_in_range * steps_val

\* Device.initialize_duty_cycle, lines 403-430
initialize_duty_cycle(d) ==
    LET generic == IF d.minDuty # None /\ d.maxDuty # None
                   THEN calc_middle(d.minDuty, d.maxDuty, d.steps)
                   ELSE DefaultDuty
    IN  IF d.isSpecialDevice THEN [d EXCEPT !.dutyCycle = generic]
        ELSE IF d.isAcInfinDev
             THEN [d EXCEPT !.steps = 10, !.maxDuty = 100, !.minDuty = 0,
                            !.dutyCycle = calc_middle(0, 100, 10)]
        ELSE [d EXCEPT !.dutyCycle = generic]

\* the bounds (unset, one unset, ordered, equal, reversed) and the steps
\* initialize_duty_cycle is called with
MidBounds ==
    {<<None, None>>, <<None, 100>>, <<0, 0>>, <<0, 100>>, <<20, 80>>, <<20, 45>>,
     <<25, 30>>, <<80, 20>>}
MidSteps == {0 - 5, 0, 1, StepSize, 10, 30}

MidInit ==
    /\ \E b \in MidBounds, steps \in MidSteps, isSpecialDevice \in BOOLEAN, isAcInfinDev \in BOOLEAN :
          fn = [f |-> "none",
                d |-> [NewDevice(Cfg("Exhaust", TRUE, isSpecialDevice, isAcInfinDev, "sensor"),
                                 "on", RawNone)
                         EXCEPT !.minDuty = b[1], !.maxDuty = b[2], !.steps = steps],
                result |-> None]
    /\ dev = Parked /\ tasks = Parked /\ hwOnAges = Parked /\ hist = Parked
    /\ reg = Parked /\ ui = Parked

CallInitializeDutyCycle ==
    /\ fn.f = "none"
    /\ fn' = [fn EXCEPT !.f = "initialize_duty_cycle", !.result = initialize_duty_cycle(fn.d)]
    /\ UNCHANGED <<devVars, reg, ui>>

MidNext == CallInitializeDutyCycle

SpecMid == MidInit /\ [][MidNext]_vars

\* the bound-aligned midpoint of the bounds and step of device d
AlignedMidpoint(d) ==
    IF d.minDuty = None \/ d.maxDuty = None THEN 50
    ELSE IF d.steps > 0
         THEN d.minDuty + (((d.maxDuty - d.minDuty) \div 2) \div d.steps) * d.steps
         ELSE (d.minDuty + d.maxDuty) \div 2

Ordered(d) == d.minDuty # None /\ d.maxDuty # None /\ d.minDuty <= d.maxDuty

\* C34 as stated: initialize_duty_cycle sets dutyCycle to the bound-aligned
\* midpoint of the bounds and step the device has when it is called (50
\* when the bounds are unset), and for min <= max the result lies within
\* those bounds.
C34_MidpointOfGivenBounds ==
    fn.f = "initialize_duty_cycle"
    => /\ fn.result.dutyCycle = AlignedMidpoint(fn.d)
       /\ Ordered(fn.d) => fn.result.dutyCycle >= fn.d.minDuty /\ fn.result.dutyCycle <= fn.d.maxDuty

\* C34, amended: the midpoint is that of the bounds and step the device has
\* after the call, which are those it had before except on a non-special
\* AC Infinity device, where the call sets step 10 and bounds 0..100 (and
\* so duty cycle 50); for min <= max the result lies within the bounds the
\* device has after the call.
C34_MidpointOfBoundsInForce ==
    fn.f = "initialize_duty_cycle"
    => /\ fn.result.dutyCycle = AlignedMidpoint(fn.result)
       /\ Ordered(fn.result) => /\ fn.result.dutyCycle >= fn.result.minDuty
                                /\ fn.result.dutyCycle <= fn.result.maxDuty
       /\ IF fn.d.isAcInfinDev /\ ~fn.d.isSpecialDevice
          THEN fn.result = [fn.d EXCEPT !.steps = 10, !.minDuty = 0, !.maxDuty = 100,
                                        !.dutyCycle = 50]
          ELSE fn.result = [fn.d EXCEPT !.dutyCycle = fn.result.dutyCycle]

\* a step that does not divide half the range: 20..45 in steps of 5 gives 30
C34_Witness ==
    /\ fn # Parked /\ fn.f = "initialize_duty_cycle"
    /\ fn.d.minDuty = 20 /\ fn.d.maxDuty = 45 /\ fn.d.steps = 5 /\ ~fn.d.isAcInfinDev
    /\ fn.result.dutyCycle = 30

----------------------------------------------------------------------------
(* Further properties of the control loop's task *)

\* a loop task that is not done: created and neither ended nor cancelled
Pending(task) == task \notin {"none", "ended", "cancelled"}

\* C35 as stated: at most one control-loop task of the manager is live (not
\* done) at any time.
C35_AtMostOneTask ==
    ~(Pending(ui.task) /\ Pending(ui.old))

\* C35, amended: at most one control-loop task can run cycles at any time:
\* a task that start_control replaced is one that a stop_control still in
\* flight has cancelled; it is pending only until it is resumed with the
\* cancellation.
C35_OneRunnableTask ==
    /\ ui.old \in {"none", "cancelling", "cancelled"}
    /\ ui.old # "none" => ui.stopper = "waiting"

\* control was started again while stop_control awaits the task it
\* cancelled
C35_Witness ==
    /\ ui # Parked /\ ui.control_active /\ ui.old = "cancelling"
    /\ ui.task = "ready" /\ ui.stopper = "waiting"

\* the devices whose emergency turn-off has returned while emergency_stop
\* is still at a later device
SwitchedOff == {DeviceOrder[i] : i \in 1..(ui.estop - 1)} \cap ui.off_calls

\* C36: a control cycle that is in flight while emergency_stop runs issues
\* no turn-on to a device that emergency_stop has already switched off, so
\* that when emergency_stop returns no device has been turned on after its
\* emergency turn-off.
C36_NoReactivationDuringEmergencyStop ==
    [][(/\ ui.estop > 0 /\ ui.estop_at = ui.cycles /\ ui'.cycles = ui.cycles
        /\ ui'.commands # ui.commands /\ ui'.commands # <<>>)
          => ~(/\ ui'.commands[Len(ui'.commands)].op = "turn_on"
               /\ ui'.commands[Len(ui'.commands)].name \in SwitchedOff)]_vars

----------------------------------------------------------------------------
(* Further properties of the actuator's rate limit *)

\* C37: a turn_on call that is rejected (rate limit or device offline)
\* leaves the cooldown clock alone; the clock restarts only when a call is
\* accepted, and a call made once Cooldown seconds have passed since the
\* last accepted one (device online) is accepted, however many calls were
\* rejected in between.
C37_RejectedKeepsCooldown ==
    /\ [][(\E b \in TurnOnArgs : turn_on(b)) /\ (RateLimited(dev) \/ ~is_device_online(dev))
            => dev'.since_turn_on = dev.since_turn_on /\ tasks' = tasks]_vars
    /\ [][dev'.since_turn_on < dev.since_turn_on
            => /\ dev'.since_turn_on = 0 /\ dev.since_turn_on >= Cooldown
               /\ Len(hwOnAges') = Len(hwOnAges) + 1]_vars
    /\ [][(\E b \in TurnOnArgs : turn_on(b)) /\ dev.since_turn_on >= Cooldown
            /\ is_device_online(dev)
            => dev'.since_turn_on = 0 /\ InFlight("on")' # InFlight("on")]_vars

\* a call accepted two seconds ago is the only one suspended, and a call
\* rejected since then has cleared the in-control flag without restarting
\* the clock
C37_Witness ==
    /\ dev.since_turn_on = 2 /\ Len(hwOnAges) = 1 /\ ~dev.in_active_control
    /\ Cardinality(InFlight("on")) = 1 /\ InFlight("off") = {}

----------------------------------------------------------------------------
(* Devices and the event channel.  Device.__init__ subscribes five handlers *)
(* of the new object (lines 45-49); fn.listeners holds the objects whose    *)
(* handlers are subscribed, in the order of their construction, and         *)
(* fn.handled the objects whose handler the latest event was delivered to.  *)

MaxListeners == 3

\* the events a Device subscribes to
DeviceEvents ==
    {"DeviceStateUpdate", "WorkModeChange", "SetMinMax", "MinMaxControlDisabled",
     "MinMaxControlEnabled"}

\* setupDevice constructs the Device, whose constructor subscribes it
BusSetup(deviceName, deviceType) ==
    /\ Len(fn.listeners) < MaxListeners
    /\ setupDevice(deviceName, deviceType)
    /\ fn' = IF ControlAllowed(reg.mainControl)
             THEN [fn EXCEPT !.listeners = Append(@, RegDevice(deviceName, deviceType))]
             ELSE fn

\* removeDevice and capCleaner take the object off the list; no code of
\* Device or OGBDeviceManager cancels a subscription
BusRemove(deviceName) == removeDevice(deviceName) /\ UNCHANGED fn

BusClean == capCleaner /\ UNCHANGED fn

\* an event is published: every subscribed handler is called
Emit(event) ==
    /\ fn' = [fn EXCEPT !.event = event, !.handled = fn.listeners]
    /\ UNCHANGED reg

BusInit ==
    /\ reg = [mainControl |-> "HomeAssistant", devices |-> <<>>,
              capabilities |-> [cap \in CapNames |-> EmptyCap]]
    /\ fn = [listeners |-> <<>>, event |-> "none", handled |-> <<>>]
    /\ dev = Parked /\ tasks = Parked /\ hwOnAges = Parked /\ hist = Parked
    /\ ui = Parked

BusNext ==
    \/ (\E deviceName \in RegNames, deviceType \in RegTypes : BusSetup(deviceName, deviceType))
          /\ UNCHANGED <<devVars, ui>>
    \/ (\E deviceName \in RegNames : BusRemove(deviceName)) /\ UNCHANGED <<devVars, ui>>
    \/ BusClean /\ UNCHANGED <<devVars, ui>>
    \/ (\E event \in DeviceEvents : Emit(event)) /\ UNCHANGED <<devVars, ui>>

SpecBus == BusInit /\ [][BusNext]_vars

\* how many objects of a sequence are device d
Count(seq, d) == Cardinality({i \in 1..Len(seq) : seq[i] = d})

\* C38: an event is handled only by Device objects that are in the room's
\* device list: an object that removeDevice or capCleaner took off the list
\* (also when a new object of the same name replaced it) reacts to no
\* WorkModeChange, SetMinMax, MinMaxControlEnabled/Disabled or
\* DeviceStateUpdate event.
C38_RemovedDeviceIsDeaf ==
    [][(\E event \in DeviceEvents : Emit(event))
          => \A i \in 1..Len(fn'.handled) :
                Count(fn'.handled, fn'.handled[i]) <= Count(reg.devices, fn'.handled[i])]_vars

----------------------------------------------------------------------------
(* LightUV: modes, the enabled setting and the schedule window.  dev is the *)
(* LightUV object, reg the data store (isPlantDay and specialLights.uv).    *)
(* Times are minutes of the day.  _activate_uv and _deactivate_uv set       *)
(* is_uv_active before their first await; dev.hw is the hardware command    *)
(* they end in.                                                             *)

MinutesPerDay == 1440
MaxDay == 2          \* days the scheduler is followed over
MaxExposure == 3     \* exposure minutes counted on one day

\* isPlantDay.lightOnTime / lightOffTime: "" as constructed, a day schedule
\* (06:00-18:00) and an overnight one (18:00-06:00)
NoTimes == <<None, None>>
StoredTimes == {NoTimes, <<360, 1080>>, <<1080, 360>>}

\* the times of day the checks run at
CheckTimes == {0, 530, 720, 1200}

\* specialLights.uv as OGBData constructs it
delayAfterStartMinutes == 160
stopBeforeEndMinutes == 160
maxDurationHours == 6

UVModes == {"Schedule", "Always On", "Always Off", "Manual"}

\* LightUV._activate_uv, lines 446-468
_activate_uv(d, phase) ==
    IF d.is_uv_active /\ d.current_phase = phase THEN d
    ELSE [d EXCEPT !.is_uv_active = TRUE, !.current_phase = phase, !.hw = "on"]

\* LightUV._deactivate_uv, lines 498-524
_deactivate_uv(d) ==
    IF ~d.is_uv_active THEN d
    ELSE [d EXCEPT !.is_uv_active = FALSE, !.current_phase = "none", !.hw = "off"]

\* the UV window of _check_schedule_window, lines 381-418: [start, end] in
\* minutes relative to today's midnight, for light times that are set
UVWindow(d, now) ==
    LET overnight == d.lightOffTime < d.lightOnTime
        light_on_dt == IF overnight /\ now < d.lightOffTime
                       THEN d.lightOnTime - MinutesPerDay ELSE d.lightOnTime
        light_off_dt == IF overnight /\ ~(now < d.lightOffTime)
                        THEN d.lightOffTime + MinutesPerDay ELSE d.lightOffTime
        uv_start == light_on_dt + d.delay_after_start_minutes
        uv_end == light_off_dt - d.stop_before_end_minutes
        max_minutes == d.max_duration_hours * 60
        center == uv_start + (uv_end - uv_start) \div 2
    IN  IF uv_end - uv_start > max_minutes
        THEN <<center - max_minutes \div 2, center + max_minutes \div 2>>
        ELSE <<uv_start, uv_end>>

\* if not getattr(self, 'enabled', True), line 350
DisabledSkips(d) == ~d.enabled

\* LightUV._check_schedule_window at the time now
_check_schedule_window(d, store, now) ==
    IF DisabledSkips(d) THEN _deactivate_uv(d)
    ELSE IF d.lightOnTime = None \/ d.lightOffTime = None THEN d
    ELSE IF ~store.islightON \/ d.sunPhaseActive \/ store.sunPhaseActive THEN _deactivate_uv(d)
    ELSE LET window == UVWindow(d, now)
             in_uv_window == window[1] <= now /\ now <= window[2]
             exposure_limit_reached == d.daily_exposure_minutes >= d.max_duration_hours * 60
         IN  IF in_uv_window /\ ~exposure_limit_reached
             THEN IF ~d.is_uv_active THEN _activate_uv(d, "schedule")
                  ELSE [d EXCEPT !.daily_exposure_minutes = @ + 1]
             ELSE _deactivate_uv(d)

\* LightUV._check_activation_conditions, lines 305-333
_check_activation_conditions(d, store, now) ==
    CASE d.mode = "Always Off" -> _deactivate_uv(d)
      [] d.mode = "Manual" -> d
      [] d.mode = "Always On" ->
            IF d.islightON = TRUE /\ ~d.sunPhaseActive THEN _activate_uv(d, "always_on")
            ELSE _deactivate_uv(d)
      [] OTHER -> IF d.mode = "Schedule" THEN _check_schedule_window(d, store, now) ELSE d

\* LightUV._check_daily_reset, lines 297-303
_check_daily_reset(d, today) ==
    IF d.last_exposure_date # today
    THEN [d EXCEPT !.daily_exposure_minutes = 0, !.last_exposure_date = today]
    ELSE d

\* LightUV._load_settings, lines 177-236: the scheduler is started only when
\* enabled in Schedule mode (the stored settings name no mode); nothing is
\* switched off otherwise
_load_settings(d, store) ==
    [d EXCEPT !.lightOnTime = IF store.lightTimes[1] # None THEN store.lightTimes[1] ELSE @,
              !.lightOffTime = IF store.lightTimes[2] # None THEN store.lightTimes[2] ELSE @,
              !.islightON = store.islightON,
              !.enabled = store.enabled,
              !.mode = "Schedule",
              !.delay_after_start_minutes = delayAfterStartMinutes,
              !.stop_before_end_minutes = stopBeforeEndMinutes,
              !.max_duration_hours = maxDurationHours,
              !.scheduler = IF store.enabled THEN "running" ELSE "none",
              !.disabled_by_update = @ /\ ~store.enabled]

\* LightUV.__init__, lines 72-106, on the store as OGBData constructs it
UVInit ==
    /\ reg = [islightON |-> FALSE, sunPhaseActive |-> FALSE, lightTimes |-> NoTimes,
              enabled |-> FALSE]
    /\ dev = _load_settings(
                [mode |-> "Schedule", enabled |-> TRUE, is_uv_active |-> FALSE,
                 current_phase |-> "none", daily_exposure_minutes |-> 0,
                 last_exposure_date |-> None, lightOnTime |-> None, lightOffTime |-> None,
                 islightON |-> None, sunPhaseActive |-> FALSE,
                 delay_after_start_minutes |-> 120, stop_before_end_minutes |-> 120,
                 max_duration_hours |-> 6, scheduler |-> "none", hw |-> "off",
                 disabled_by_update |-> FALSE], reg)
    /\ tasks = Parked /\ hwOnAges = Parked /\ hist = Parked /\ fn = Parked /\ ui = Parked

\* the store is written by the room's other components
StoreWrite ==
    /\ \E islightON \in BOOLEAN, sunPhaseActive \in BOOLEAN, lightTimes \in StoredTimes,
          enabled \in BOOLEAN :
          reg' = [islightON |-> islightON, sunPhaseActive |-> sunPhaseActive,
                  lightTimes |-> lightTimes, enabled |-> enabled]
    /\ Cardinality({k \in DOMAIN reg : reg'[k] # reg[k]}) = 1
    /\ UNCHANGED dev

\* LightUV._on_light_time_change, lines 526-537
_on_light_time_change ==
    /\ dev' = _load_settings([dev EXCEPT !.scheduler = "none"], reg)
    /\ UNCHANGED reg

\* one round of _schedule_loop (or the immediate check), lines 285-295, at
\* the time now, on the day of the round before or on the next
SchedulerTick(now, nextDay) ==
    /\ dev.scheduler = "running"
    /\ nextDay => dev.last_exposure_date < MaxDay
    /\ LET today == IF dev.last_exposure_date = None THEN 1
                    ELSE IF nextDay THEN dev.last_exposure_date + 1 ELSE dev.last_exposure_date
       IN  dev' = _check_daily_reset(_check_activation_conditions(dev, reg, now), today)
    /\ dev'.daily_exposure_minutes <= MaxExposure
    /\ UNCHANGED reg

\* LightUV._on_main_light_toggle, lines 539-592, with a boolean lightState
_on_main_light_toggle(target_state) ==
    /\ dev' = IF ~dev.enabled THEN dev
              ELSE LET d == [dev EXCEPT !.islightON = target_state]
                   IN  IF d.mode # "Always On" THEN d
                       ELSE IF ~target_state THEN _deactivate_uv(d)
                       ELSE IF ~d.is_uv_active THEN _activate_uv(d, "always_on") ELSE d
    /\ UNCHANGED reg

Absent == "absent"

\* the UVSettingsUpdate payloads: a mode, an enabled flag, or both
SettingsUpdates == [mode : UVModes \cup {Absent}, enabled : {"true", "false", Absent}]
                       \ {[mode |-> Absent, enabled |-> Absent]}

\* LightUV._on_settings_update, lines 594-626, at the time now: the enabled
\* flag of the payload is read into a local and acted on, not stored
_on_settings_update(data, now) ==
    /\ LET moded == IF data.mode = Absent \/ data.mode = dev.mode
                    THEN [dev EXCEPT !.mode = IF data.mode = Absent THEN @ ELSE data.mode]
                    ELSE LET d == [dev EXCEPT !.mode = data.mode]
                         IN  CASE d.mode = "Always Off" -> _deactivate_uv(d)
                               [] d.mode = "Always On" /\ d.islightON = TRUE -> _activate_uv(d, "always_on")
                               [] d.mode = "Schedule" -> _check_schedule_window(d, reg, now)
                               [] OTHER -> d
           switched == IF data.enabled = "false" THEN _deactivate_uv(moded) ELSE moded
       IN  dev' = [switched EXCEPT !.disabled_by_update =
                      IF data.enabled = Absent THEN @ ELSE data.enabled = "false"]
    /\ dev'.daily_exposure_minutes <= MaxExposure
    /\ UNCHANGED reg

UVNext ==
    \/ StoreWrite /\ UNCHANGED <<tasks, hwOnAges, hist, fn, ui>>
    \/ _on_light_time_change /\ UNCHANGED <<tasks, hwOnAges, hist, fn, ui>>
    \/ (\E now \in CheckTimes, nextDay \in BOOLEAN : SchedulerTick(now, nextDay))
          /\ UNCHANGED <<tasks, hwOnAges, hist, fn, ui>>
    \/ (\E target_state \in BOOLEAN : _on_main_light_toggle(target_state))
          /\ UNCHANGED <<tasks, hwOnAges, hist, fn, ui>>
    \/ (\E data \in SettingsUpdates, now \in CheckTimes : _on_settings_update(data, now))
          /\ UNCHANGED <<tasks, hwOnAges, hist, fn, ui>>

SpecUV == UVInit /\ [][UVNext]_vars

\* C39: after a UVSettingsUpdate with enabled = false the UV light is
\* inactive, and no scheduler check, main-light toggle or mode change
\* activates it until a settings update or a settings reload enables it
\* again.
C39_DisabledStaysOff ==
    dev.disabled_by_update => ~dev.is_uv_active /\ dev.hw = "off"

\* the UV window as the claim has it, for light times that are set: from
\* delay_after_start_minutes after lights-on to stop_before_end_minutes
\* before lights-off, cut to max_duration_hours around its middle
OutsideWindow(d, now) ==
    /\ d.lightOnTime # None /\ d.lightOffTime # None
    /\ ~(UVWindow(d, now)[1] <= now /\ now <= UVWindow(d, now)[2])

\* the conditions under which the UV light has to be off at the time now
MustBeOff(d, store, now) ==
    \/ ~store.islightON
    \/ store.sunPhaseActive \/ d.sunPhaseActive
    \/ OutsideWindow(d, now)
    \/ d.daily_exposure_minutes >= d.max_duration_hours * 60

\* C40: in Schedule mode, a run of the schedule check leaves the UV light
\* inactive whenever the main light is off, a sun phase is active, the
\* time is outside the UV window or the daily exposure has reached
\* max_duration_hours * 60.
C40_ScheduleCheckKeepsOff ==
    [][\A now \in CheckTimes :
          (/\ \E nextDay \in BOOLEAN : SchedulerTick(now, nextDay)
           /\ dev.mode = "Schedule" /\ MustBeOff(dev, reg, now))
             => ~dev'.is_uv_active]_vars
=============================================================================
